---------------------------- MODULE Spec2Model ----------------------------
(***************************************************************************)
(* Memoria server: the time-phrase parser and classifier (server/main.py), *)
(* the due-time normalizer, the recurrence expander and the store of tasks *)
(* and memories (server/storage.py), the notifier loop and the export and  *)
(* import handlers (server/main.py), as state machines.                    *)
(*                                                                         *)
(* Conventions.  An optional value (Python None or a value) is a sequence  *)
(* of length 0 or 1.  A text is a sequence of words (the text split at     *)
(* whitespace); a word is a string.  A naive datetime is a record          *)
(* [y, mo, d, h, mi, s, us].                                               *)
(***************************************************************************)
EXTENDS Integers, Sequences, FiniteSets, TLC

VARIABLES
  ptext,    \* parser: the raw input text (a sequence of words)
  pnow,     \* parser: the reading of datetime.now() (naive local time)
  xres,     \* parser: what _extract_due(ptext) gave
  pres,     \* parser: what _parse_input(ptext) gave
  nin,      \* normalizer: the due given (an optional due string)
  noff,     \* normalizer: the UTC offset of the local zone, in minutes
  n1,       \* normalizer: _normalize_due_to_utc(nin)
  n2,       \* normalizer: _normalize_due_to_utc of n1's value
  etask,    \* expander: the task record given
  estart,   \* expander: start_date (an optional datetime)
  eend,     \* expander: end_date (an optional datetime)
  enow,     \* expander: the reading of datetime.now(timezone.utc)
  eres,     \* expander: what _expand_recurring_task gave
  tasks,    \* store: the rows of table tasks, by id (None: no such row)
  nextId,   \* store: the id AUTOINCREMENT gives the next inserted row
  resp,     \* store: the last call and what it returned
  clock,    \* notifier: the place of the current time in NotifyClock
  notifier, \* notifier: where _notifier_loop stands, its now_iso and its list due
  sent,     \* notifier: the number of notifications sent, by task id
  memories, \* store: the rows of table memories, by id (None: no such row)
  nextMem   \* store: the id AUTOINCREMENT gives the next inserted memory

pvars == <<ptext, pnow, xres, pres>>
nvars == <<nin, noff, n1, n2>>
evars == <<etask, estart, eend, enow, eres>>
svars == <<tasks, nextId, resp>>
tvars == <<clock, notifier, sent>>
mvars == <<memories, nextMem>>
vars == <<pvars, nvars, evars, svars, tvars, mvars>>

None == <<>>
Some(x) == <<x>>

-----------------------------------------------------------------------------
(* Calendar arithmetic of datetime / timedelta (proleptic Gregorian).      *)

IsLeap(y) == (y % 4 = 0 /\ y % 100 # 0) \/ y % 400 = 0

DaysInMonth(y, mo) ==
  IF mo = 2 THEN (IF IsLeap(y) THEN 29 ELSE 28)
  ELSE IF mo \in {4, 6, 9, 11} THEN 30 ELSE 31

\* Days since 1970-01-01 of a civil date.
DaysFromCivil(y, mo, d) ==
  LET yy  == IF mo <= 2 THEN y - 1 ELSE y
      era == yy \div 400
      yoe == yy - era * 400
      mp  == IF mo > 2 THEN mo - 3 ELSE mo + 9
      doy == (153 * mp + 2) \div 5 + d - 1
      doe == yoe * 365 + yoe \div 4 - yoe \div 100 + doy
  IN era * 146097 + doe - 719468

\* The civil date of a day number.
CivilFromDays(z) ==
  LET zz  == z + 719468
      era == zz \div 146097
      doe == zz - era * 146097
      yoe == (doe - doe \div 1460 + doe \div 36524 - doe \div 146096) \div 365
      doy == doe - (365 * yoe + yoe \div 4 - yoe \div 100)
      mp  == (5 * doy + 2) \div 153
      d   == doy - (153 * mp + 2) \div 5 + 1
      mo  == IF mp < 10 THEN mp + 3 ELSE mp - 9
      y   == yoe + era * 400 + (IF mo <= 2 THEN 1 ELSE 0)
  IN [y |-> y, mo |-> mo, d |-> d]

DT(y, mo, d, h, mi, s, us) ==
  [y |-> y, mo |-> mo, d |-> d, h |-> h, mi |-> mi, s |-> s, us |-> us]

\* datetime.weekday(): Monday is 0.
Weekday(dt) == (DaysFromCivil(dt.y, dt.mo, dt.d) + 3) % 7

\* Minutes since 1970-01-01T00:00 of the wall-clock reading.
MinuteOf(dt) == DaysFromCivil(dt.y, dt.mo, dt.d) * 1440 + dt.h * 60 + dt.mi

\* dt + timedelta(minutes=n): seconds and microseconds are carried along.
AddMinutes(dt, n) ==
  LET t == MinuteOf(dt) + n
      c == CivilFromDays(t \div 1440)
      r == t % 1440
  IN DT(c.y, c.mo, c.d, r \div 60, r % 60, dt.s, dt.us)

AddDays(dt, n) == AddMinutes(dt, n * 1440)

\* a < b on naive datetimes.
DTLess(a, b) ==
  \/ MinuteOf(a) < MinuteOf(b)
  \/ MinuteOf(a) = MinuteOf(b) /\ (a.s < b.s \/ (a.s = b.s /\ a.us < b.us))

\* The datetime(...) constructor and datetime.replace(...) raise ValueError
\* on a field out of range: the outcome is [ok |-> FALSE].
ValidDT(dt) ==
  /\ dt.y \in 1..9999 /\ dt.mo \in 1..12
  /\ dt.d >= 1 /\ dt.d <= DaysInMonth(dt.y, dt.mo)
  /\ dt.h \in 0..23 /\ dt.mi \in 0..59

ZeroDT == DT(0, 0, 0, 0, 0, 0, 0)
Made(dt) == IF ValidDT(dt) THEN [ok |-> TRUE, dt |-> dt] ELSE [ok |-> FALSE, dt |-> ZeroDT]
Failed == [ok |-> FALSE, dt |-> ZeroDT]

-----------------------------------------------------------------------------
(* Each component has a state machine of its own; while one runs, the      *)
(* variables of the others rest at these values.                           *)

Idle == [st |-> "idle", text |-> <<>>, due |-> None]
IdleParse == [st |-> "idle", kind |-> "", text |-> <<>>, due |-> None]
NotRun == [st |-> "idle", val |-> None]

ParserIdle ==
  /\ ptext = <<>>
  /\ pnow = ZeroDT
  /\ xres = Idle
  /\ pres = IdleParse

NormalizerIdle ==
  /\ nin = None
  /\ noff = 0
  /\ n1 = NotRun
  /\ n2 = NotRun

NotExpanded == [st |-> "idle", items |-> <<>>, seen |-> 0]

ExpanderIdle ==
  /\ etask = None
  /\ estart = None
  /\ eend = None
  /\ enow = ZeroDT
  /\ eres = NotExpanded

NoCall == [op |-> "none"]

StoreIdle ==
  /\ tasks = <<>>
  /\ nextId = 0
  /\ resp = NoCall

NotStarted == [pc |-> "off", at |-> ZeroDT, due |-> <<>>]

NotifierIdle ==
  /\ clock = 0
  /\ notifier = NotStarted
  /\ sent = <<>>

MemoriesIdle ==
  /\ memories = <<>>
  /\ nextMem = 0

-----------------------------------------------------------------------------
(* Words.  The regular expressions of _extract_due are matched word by     *)
(* word: Lex gives what a word is to them.  k: the class; n: the number    *)
(* the word starts with (hour, day, count, weekday, month); m: the minute  *)
(* after a colon (-1: none); ap: a suffix written onto the number, the     *)
(* suffix word itself, or the unit; y: the year of a YYYY-MM-DD word.      *)

Tok(k, n, m, ap, y) == [k |-> k, n |-> n, m |-> m, ap |-> ap, y |-> y]

\* str.lower() / re.I: the words written with a capital.
Lower(w) ==
  CASE w = "Tomorrow" -> "tomorrow"
    [] w = "Remind"   -> "remind"
    [] w = "Next"     -> "next"
    [] w = "At"       -> "at"
    [] OTHER          -> w

Lex(w) ==
  CASE w = "5"     -> Tok("time", 5, -1, "", 0)
    [] w = "10"    -> Tok("time", 10, -1, "", 0)
    [] w = "12"    -> Tok("time", 12, -1, "", 0)
    [] w = "25"    -> Tok("time", 25, -1, "", 0)
    [] w = "29"    -> Tok("time", 29, -1, "", 0)
    [] w = "30"    -> Tok("time", 30, -1, "", 0)
    [] w = "150"   -> Tok("time", 150, -1, "", 0)
    [] w = "5:30"  -> Tok("time", 5, 30, "", 0)
    [] w = "5:75"  -> Tok("time", 5, 75, "", 0)
    [] w = "3pm"   -> Tok("time", 3, -1, "pm", 0)
    [] w = "12am"  -> Tok("time", 12, -1, "am", 0)
    [] w = "9p"    -> Tok("time", 9, -1, "p", 0)
    [] w = "1st"   -> Tok("ord", 1, -1, "", 0)
    [] w = "am"    -> Tok("ap", 0, -1, "am", 0)
    [] w = "pm"    -> Tok("ap", 0, -1, "pm", 0)
    [] w = "a"     -> Tok("ap", 0, -1, "a", 0)
    [] w = "p"     -> Tok("ap", 0, -1, "p", 0)
    [] w = "mon"       -> Tok("wd", 0, 0, "", 0)
    [] w = "monday"    -> Tok("wd", 0, 1, "", 0)
    [] w = "thu"       -> Tok("wd", 3, 0, "", 0)
    [] w = "thursday"  -> Tok("wd", 3, 1, "", 0)
    [] w = "sunday"    -> Tok("wd", 6, 1, "", 0)
    [] w = "february"  -> Tok("month", 2, -1, "", 0)
    [] w = "march"     -> Tok("month", 3, -1, "", 0)
    [] w = "december"  -> Tok("month", 12, -1, "", 0)
    [] w = "2024-02-30" -> Tok("iso", 2, 30, "", 2024)
    [] w = "2025-01-05" -> Tok("iso", 1, 5, "", 2025)
    [] w = "2024-13-01" -> Tok("iso", 13, 1, "", 2024)
    [] w \in {"m", "min", "minutes"} -> Tok("unit", 0, -1, "min", 0)
    [] w \in {"h", "hours"}          -> Tok("unit", 0, -1, "hour", 0)
    [] w \in {"d", "days"}           -> Tok("unit", 0, -1, "day", 0)
    [] w = "morning"   -> Tok("period", 9, -1, "", 0)
    [] w = "afternoon" -> Tok("period", 14, -1, "", 0)
    [] w = "evening"   -> Tok("period", 18, -1, "", 0)
    [] w = "night"     -> Tok("period", 21, -1, "", 0)
    [] OTHER           -> Tok("word", 0, -1, "", 0)

\* The i-th word of t lower-cased ("" beyond the ends), and what it is.
W(t, i) == IF i \in 1..Len(t) THEN Lower(t[i]) ELSE ""
L(t, i) == Lex(W(t, i))

\* re.search: the leftmost position among those where the pattern matches
\* (0: it matches nowhere).
FirstIdx(S) == IF S = {} THEN 0 ELSE CHOOSE i \in S : \A j \in S : i <= j

\* (\d{1,3}) as a whole word, and (\d{1,2})(?:st|nd|rd|th)? as a whole word.
IsCount(a) == a.k = "time" /\ a.m = -1 /\ a.ap = "" /\ a.n <= 999
IsDay(a) == (a.k = "time" /\ a.m = -1 /\ a.ap = "" /\ a.n <= 99) \/ a.k = "ord"

\* (\d{1,2})(?::(\d{2}))?\s*(S)?\b at word j, for the suffixes S the pattern
\* accepts: the suffix is written onto the number or is the next word.
NoTime == [ok |-> FALSE, len |-> 0, h |-> 0, m |-> -1, ap |-> ""]
TimeOf(a, b, S) ==
  IF a.k = "time" /\ a.n <= 99 /\ (a.ap = "" \/ a.ap \in S)
  THEN IF a.ap = "" /\ b.k = "ap" /\ b.ap \in S
       THEN [ok |-> TRUE, len |-> 2, h |-> a.n, m |-> a.m, ap |-> b.ap]
       ELSE [ok |-> TRUE, len |-> 1, h |-> a.n, m |-> a.m, ap |-> a.ap]
  ELSE NoTime

TimeAt(t, j, S) == TimeOf(L(t, j), L(t, j + 1), S)

\* (?:at\s+)?<time>
AfterAt(isAt, after, otherwise) ==
  IF isAt /\ after.ok THEN [after EXCEPT !.len = @ + 1] ELSE otherwise

AtTimeAt(t, j, S) == AfterAt(W(t, j) = "at", TimeAt(t, j + 1, S), TimeAt(t, j, S))

\* at\s+<time>
MustAtTimeAt(t, j, S) == AfterAt(W(t, j) = "at", TimeAt(t, j + 1, S), NoTime)

AmPm == {"am", "pm"}
AmPmAP == {"am", "pm", "a", "p"}

\* Whether sub occurs in t at word i.
OccursAt(t, sub, i) ==
  /\ i + Len(sub) - 1 <= Len(t)
  /\ \A k \in 1..Len(sub) : t[i + k - 1] = sub[k]

\* text.replace(m.group(0), " "): every occurrence of the matched words goes,
\* left to right, not overlapping.
RECURSIVE RemoveFrom(_, _, _)
RemoveFrom(t, sub, i) ==
  IF i > Len(t) THEN <<>>
  ELSE IF OccursAt(t, sub, i) THEN RemoveFrom(t, sub, i + Len(sub))
  ELSE <<t[i]>> \o RemoveFrom(t, sub, i + 1)

RemoveAll(t, sub) == IF sub = <<>> THEN t ELSE RemoveFrom(t, sub, 1)

\* set_time(d, hh, mm, ap): only "am" and "pm" move the hour.
set_time(d, hh, mm, ap) ==
  LET M == IF mm = -1 THEN 0 ELSE mm
      H == IF ap = "pm" /\ hh < 12 THEN hh + 12
           ELSE IF ap = "am" /\ hh = 12 THEN 0
           ELSE hh
  IN Made([d EXCEPT !.h = H, !.mi = M, !.s = 0, !.us = 0])

-----------------------------------------------------------------------------
(* The recognizers of _extract_due.  Each M.. is the re.search of one      *)
(* pattern on a text: found, the first word i and the number of words len  *)
(* of m.group(0), and the groups.  Each D.. is the datetime its branch     *)
(* builds from the groups ([ok |-> FALSE]: the branch raises ValueError).  *)

Span(t, m) == SubSeq(t, m.i, m.i + m.len - 1)

\* in X minutes/hours/days
MRelative(t) ==
  LET P(i) == W(t, i) = "in" /\ IsCount(L(t, i + 1)) /\ L(t, i + 2).k = "unit"
      i == FirstIdx({j \in 1..Len(t) : P(j)})
  IN [found |-> i # 0, i |-> i, len |-> 3, num |-> L(t, i + 1).n, unit |-> L(t, i + 2).ap]

DRelative(m, now) ==
  [ok |-> TRUE,
   dt |-> CASE m.unit = "min"  -> AddMinutes(now, m.num)
            [] m.unit = "hour" -> AddMinutes(now, m.num * 60)
            [] m.unit = "day"  -> AddDays(now, m.num)
            [] OTHER           -> now]

\* tomorrow [at time] or tomorrow [morning/afternoon/evening/night]
MTomorrow(t) ==
  LET P(i) == W(t, i) = "tomorrow"
      i == FirstIdx({j \in 1..Len(t) : P(j)})
      tm == AtTimeAt(t, i + 1, AmPm)
      per == L(t, i + 1).k = "period"
  IN [found |-> i # 0, i |-> i,
      len |-> IF tm.ok THEN 1 + tm.len ELSE IF per THEN 2 ELSE 1,
      time |-> tm,
      period |-> IF ~tm.ok /\ per THEN L(t, i + 1).n ELSE -1]

DTomorrow(m, now) ==
  LET d == AddDays(now, 1)
  IN IF m.time.ok THEN set_time(d, m.time.h, m.time.m, m.time.ap)
     ELSE IF m.period # -1 THEN set_time(d, m.period, 0, "")
     ELSE set_time(d, 9, 0, "")

\* today at hh:mm
MToday(t) ==
  LET P(i) == W(t, i) = "today" /\ MustAtTimeAt(t, i + 1, AmPm).ok
      i == FirstIdx({j \in 1..Len(t) : P(j)})
      tm == MustAtTimeAt(t, i + 1, AmPm)
  IN [found |-> i # 0, i |-> i, len |-> 1 + tm.len, time |-> tm]

DToday(m, now) == set_time(now, m.time.h, m.time.m, m.time.ap)

\* A "next weekday" without "if delta == 0: delta = 7".
DNextWeekdayNearest(m, now) ==
  LET delta == (m.target - Weekday(now) + 7) % 7
      d == AddDays(now, delta)
  IN IF m.time.ok THEN set_time(d, m.time.h, m.time.m, m.time.ap)
     ELSE set_time(d, 9, 0, "")

\* next weekday
MNextWeekday(t) ==
  LET P(i) == W(t, i) = "next" /\ L(t, i + 1).k = "wd" /\ L(t, i + 1).m = 1
      i == FirstIdx({j \in 1..Len(t) : P(j)})
      tm == MustAtTimeAt(t, i + 2, AmPm)
  IN [found |-> i # 0, i |-> i, len |-> 2 + tm.len, target |-> L(t, i + 1).n, time |-> tm]

DNextWeekday(m, now) ==
  LET delta0 == (m.target - Weekday(now) + 7) % 7
      delta == IF delta0 = 0 THEN 7 ELSE delta0
      d == AddDays(now, delta)
  IN IF m.time.ok THEN set_time(d, m.time.h, m.time.m, m.time.ap)
     ELSE set_time(d, 9, 0, "")

\* weekday with time (e.g., "Mon 9a", "Tuesday 3:30pm")
MWeekdayTime(t) ==
  LET P(i) == L(t, i).k = "wd" /\ TimeAt(t, i + 1, AmPmAP).ok
      i == FirstIdx({j \in 1..Len(t) : P(j)})
      tm == TimeAt(t, i + 1, AmPmAP)
  IN [found |-> i # 0, i |-> i, len |-> 1 + tm.len, target |-> L(t, i).n, time |-> tm]

DWeekdayTime(m, now) ==
  LET delta0 == (m.target - Weekday(now)) % 7
      ap == m.time.ap
      time_hour == IF ap \in {"pm", "p"} /\ m.time.h < 12 THEN m.time.h + 12
                   ELSE IF ap \in {"am", "a"} /\ m.time.h = 12 THEN 0
                   ELSE m.time.h
      minute == IF m.time.m = -1 THEN 0 ELSE m.time.m
      delta == IF delta0 = 0 /\ (time_hour < now.h \/ (time_hour = now.h /\ minute <= now.mi))
               THEN 7 ELSE delta0
  IN set_time(AddDays(now, delta), m.time.h, m.time.m, ap)

\* [on] [Month] [Day][st/nd/rd/th] [time]
MMonthDay(t, withOn) ==
  LET o == IF withOn THEN 1 ELSE 0
      P(i) == /\ withOn => W(t, i) = "on"
              /\ L(t, i + o).k = "month"
              /\ IsDay(L(t, i + o + 1))
      i == FirstIdx({j \in 1..Len(t) : P(j)})
      tm == AtTimeAt(t, i + o + 2, AmPmAP)
  IN [found |-> i # 0, i |-> i, len |-> o + 2 + tm.len,
      mo |-> L(t, i + o).n, da |-> L(t, i + o + 1).n, time |-> tm]

DMonthDay(m, now) ==
  LET d0 == Made(DT(now.y, m.mo, m.da, 9, 0, 0, 0))
      midnight == [now EXCEPT !.h = 0, !.mi = 0, !.s = 0, !.us = 0]
      d1 == IF d0.ok /\ DTLess(d0.dt, midnight)
            THEN Made([d0.dt EXCEPT !.y = now.y + 1])
            ELSE d0
  IN IF d1.ok /\ m.time.ok
     THEN set_time(d1.dt, m.time.h, m.time.m, m.time.ap)
     ELSE d1

\* on YYYY-MM-DD [HH:MM]
MIsoDate(t) ==
  LET P(i) == W(t, i) = "on" /\ L(t, i + 1).k = "iso"
      i == FirstIdx({j \in 1..Len(t) : P(j)})
      tm == TimeAt(t, i + 2, {})
      a == L(t, i + 1)
  IN [found |-> i # 0, i |-> i, len |-> 2 + tm.len,
      y |-> a.y, mo |-> a.n, da |-> a.m, time |-> tm]

DIsoDate(m, now) ==
  LET d == Made(DT(m.y, m.mo, m.da, 9, 0, 0, 0))
  IN IF d.ok /\ m.time.ok
     THEN Made([d.dt EXCEPT !.h = m.time.h, !.mi = IF m.time.m = -1 THEN 0 ELSE m.time.m])
     ELSE d

\* at hh:mm (today)
MAt(t) ==
  LET P(i) == W(t, i) = "at" /\ TimeAt(t, i + 1, AmPm).ok
      i == FirstIdx({j \in 1..Len(t) : P(j)})
      tm == TimeAt(t, i + 1, AmPm)
  IN [found |-> i # 0, i |-> i, len |-> 1 + tm.len, time |-> tm]

DAt(m, now) == set_time(now, m.time.h, m.time.m, m.time.ap)

-----------------------------------------------------------------------------
(* _extract_due, _strip_prefixes and _parse_input.                          *)

\* A due string.  kind "naive": an ISO datetime without offset; "aware": an
\* ISO datetime with the UTC offset off (minutes); "loose": a date written in
\* a way datetime.fromisoformat rejects and dateutil's parser reads (as the
\* naive datetime dt); "bad": a string neither of them reads, the raw-th such
\* string; "empty": the empty string.
DueStr(kind, dt, off, raw) == [kind |-> kind, dt |-> dt, off |-> off, raw |-> raw]

\* datetime.isoformat() of a naive and of an aware datetime.
IsoNaive(dt) == DueStr("naive", dt, 0, 0)
IsoAware(dt, off) == DueStr("aware", dt, off, 0)

\* A block that lost its "and not due": a later recognizer overrides the
\* timestamp and takes its phrase out of the text as well.
StepNoGuard(st, m, d) ==
  IF st.raised \/ ~m.found THEN st
  ELSE IF ~d.ok THEN [st EXCEPT !.raised = TRUE]
  ELSE [text |-> RemoveAll(st.text, Span(st.text, m)), due |-> Some(d.dt), raised |-> FALSE]

\* One "if m and not due:" block: the first block whose pattern matches
\* builds the datetime (or raises) and removes what it matched from the text.
Step(st, m, d) ==
  IF st.raised \/ ~m.found \/ st.due # None THEN st
  ELSE IF ~d.ok THEN [st EXCEPT !.raised = TRUE]
  ELSE [text |-> RemoveAll(st.text, Span(st.text, m)), due |-> Some(d.dt), raised |-> FALSE]

RaisedResult == [st |-> "raise", text |-> <<>>, due |-> None]

\* The recognizers in their fixed order: relative offset, tomorrow, today at,
\* next weekday, weekday with time, month day (with and without "on"), ISO
\* date, bare "at".
NRecognizers == 9

MatchOf(k, t) ==
  CASE k = 1 -> MRelative(t)
    [] k = 2 -> MTomorrow(t)
    [] k = 3 -> MToday(t)
    [] k = 4 -> MNextWeekday(t)
    [] k = 5 -> MWeekdayTime(t)
    [] k = 6 -> MMonthDay(t, TRUE)
    [] k = 7 -> MMonthDay(t, FALSE)
    [] k = 8 -> MIsoDate(t)
    [] OTHER -> MAt(t)

DateOf(k, t, now) ==
  CASE k = 1 -> DRelative(MRelative(t), now)
    [] k = 2 -> DTomorrow(MTomorrow(t), now)
    [] k = 3 -> DToday(MToday(t), now)
    [] k = 4 -> DNextWeekday(MNextWeekday(t), now)
    [] k = 5 -> DWeekdayTime(MWeekdayTime(t), now)
    [] k = 6 -> DMonthDay(MMonthDay(t, TRUE), now)
    [] k = 7 -> DMonthDay(MMonthDay(t, FALSE), now)
    [] k = 8 -> DIsoDate(MIsoDate(t), now)
    [] OTHER -> DAt(MAt(t), now)

\* The blocks k, k+1, ... of _extract_due in turn, each on the text and the
\* due the blocks before it left.
RECURSIVE Cascade(_, _, _)
Cascade(st, k, now) ==
  IF k > NRecognizers THEN st
  ELSE CHOOSE r \in {Cascade(nx, k + 1, now) :
                       nx \in {Step(st, MatchOf(k, st.text), DateOf(k, st.text, now))}} : TRUE

\* _extract_due(s) read at local time now: the residual text and the due
\* string, or a ValueError.
Finish(end) ==
  IF end.raised THEN RaisedResult
  ELSE [st |-> "ok", text |-> end.text,
        due |-> IF end.due = None THEN None ELSE Some(IsoNaive(end.due[1]))]

ExtractDue(s, now) ==
  Finish(Cascade([text |-> s, due |-> None, raised |-> FALSE], 1, now))

Drop(t, n) == SubSeq(t, n + 1, Len(t))

\* _strip_prefixes.  "(to|that)\s*" is not closed by a word boundary: after
\* "remind me" it also takes the "to" of "tomorrow" and "today".
StripPrefixes(t) ==
  LET a == IF W(t, 1) = "remind" /\ W(t, 2) = "me"
           THEN IF W(t, 3) \in {"to", "that"} THEN Drop(t, 3)
                ELSE IF W(t, 3) = "tomorrow" THEN <<"morrow">> \o Drop(t, 3)
                ELSE IF W(t, 3) = "today" THEN <<"day">> \o Drop(t, 3)
                ELSE t
           ELSE t
      b == IF W(a, 1) = "remember" /\ Len(a) >= 2
           THEN IF W(a, 2) = "that" THEN Drop(a, 2) ELSE Drop(a, 1)
           ELSE a
      c == IF W(b, 1) = "note:" THEN Drop(b, 1) ELSE b
  IN c

\* any(k in text.lower() for k in [...]) on the trimmed text, whose words
\* stand one space apart.
LooksReminder(t) ==
  \E i \in 1..Len(t) :
    \/ W(t, i) = "remind" /\ W(t, i + 1) \in {"me"}
    \/ W(t, i) \in {"tomorrow", "today"}
    \/ W(t, i) = "next" /\ i < Len(t)
    \/ W(t, i) \in {"at", "in"} /\ 1 < i /\ i < Len(t)

\* kind = "task" if looks_reminder or due else "memory", on what
\* _extract_due returned (r).
Classify(looks_reminder, r) ==
  IF r.st = "raise" THEN [st |-> "raise", kind |-> "", text |-> <<>>, due |-> None]
  ELSE [st |-> "ok",
        kind |-> IF looks_reminder \/ r.due # None THEN "task" ELSE "memory",
        text |-> r.text, due |-> r.due]

\* _parse_input(raw) read at local time now.
ParseInput(raw, now) ==
  Classify(LooksReminder(raw), ExtractDue(StripPrefixes(raw), now))

-----------------------------------------------------------------------------
(* _normalize_due_to_utc (storage.py).                                     *)

Ret(v) == [st |-> "ok", val |-> v]
Raised == [st |-> "raise", val |-> None]

\* A normalizer that attaches the local zone to every parsed datetime, not
\* only to a naive one.
NormalizeAlwaysLocal(due, localOff) ==
  IF due = None \/ due[1].kind = "empty" THEN Ret(None)
  ELSE IF due[1].kind \in {"bad", "loose"} THEN Ret(due)
  ELSE LET utc == AddMinutes(due[1].dt, -localOff)
       IN IF utc.y \in 1..9999 THEN Ret(Some(IsoAware(utc, 0))) ELSE Raised

\* A normalizer without the try around fromisoformat: the ValueError of an
\* unreadable string reaches the caller.
NormalizeStrict(due, localOff) ==
  IF due = None \/ due[1].kind = "empty" THEN Ret(None)
  ELSE IF due[1].kind \in {"bad", "loose"} THEN Raised
  ELSE LET off == IF due[1].kind = "naive" THEN localOff ELSE due[1].off
           utc == AddMinutes(due[1].dt, -off)
       IN IF utc.y \in 1..9999 THEN Ret(Some(IsoAware(utc, 0))) ELSE Raised

\* _normalize_due_to_utc(due) in a process whose local zone is localOff
\* minutes east of UTC.  fromisoformat is Python 3.11's.  astimezone raises
\* OverflowError when the UTC value leaves the years 1..9999, outside the try.
Normalize(due, localOff) ==
  IF due = None \/ due[1].kind = "empty" THEN Ret(None)
  ELSE IF due[1].kind \in {"bad", "loose"} THEN Ret(due)
  ELSE LET off == IF due[1].kind = "naive" THEN localOff ELSE due[1].off
           utc == AddMinutes(due[1].dt, -off)
       IN IF utc.y \in 1..9999 THEN Ret(Some(IsoAware(utc, 0))) ELSE Raised

\* The offsets the local zone takes (minutes east of UTC).
LocalOffsets == {-300, 0, 60}

\* The dues the normalizer is given.
NormDateTimes ==
  { DT(2024, 1, 1, 9, 0, 0, 0), DT(2024, 2, 29, 23, 30, 15, 250), DT(1, 1, 1, 0, 30, 0, 0) }

NormInputs ==
  {None, Some(DueStr("empty", ZeroDT, 0, 0)),
   Some(DueStr("bad", ZeroDT, 0, 1)), Some(DueStr("bad", ZeroDT, 0, 2)),
   Some(DueStr("loose", DT(2024, 1, 5, 9, 0, 0, 0), 0, 0))}
  \cup {Some(IsoNaive(d)) : d \in NormDateTimes}
  \cup {Some(IsoAware(d, o)) : d \in NormDateTimes, o \in {-480, 0, 330}}

NormInit ==
  /\ NotifierIdle
  /\ MemoriesIdle
  /\ ParserIdle
  /\ ExpanderIdle
  /\ StoreIdle
  /\ nin \in NormInputs
  /\ noff \in LocalOffsets
  /\ n1 = NotRun
  /\ n2 = NotRun

\* normalize(x)
NormOnce ==
  /\ n1.st = "idle"
  /\ n1' = Normalize(nin, noff)
  /\ UNCHANGED <<nin, noff, n2>>
  /\ UNCHANGED <<pvars, evars, svars, tvars, mvars>>

\* normalize(normalize(x)): an exception of the inner call is the outcome.
NormTwice ==
  /\ n1.st # "idle" /\ n2.st = "idle"
  /\ n2' = IF n1.st = "raise" THEN Raised ELSE Normalize(n1.val, noff)
  /\ UNCHANGED <<nin, noff, n1>>
  /\ UNCHANGED <<pvars, evars, svars, tvars, mvars>>

\* The local zone's offset changes (daylight saving) between two calls.
ZoneShift ==
  /\ \E o \in LocalOffsets : o # noff /\ noff' = o
  /\ UNCHANGED <<nin, n1, n2>>
  /\ UNCHANGED <<pvars, evars, svars, tvars, mvars>>

NormNext == NormOnce \/ NormTwice \/ ZoneShift

SpecNorm == NormInit /\ [][NormNext]_vars

\* C10: normalizing None gives None, and normalizing the value of a
\* normalization again gives that value (for naive, offset-qualified, UTC,
\* unparseable and empty dues alike, whatever the local zone is at each call).
C10_Idempotent ==
  /\ (n1.st # "idle" /\ nin = None) => n1 = Ret(None)
  /\ n2.st # "idle" => n2 = n1

\* C10's case: a naive due normalized twice in a zone that is not UTC.
C10_Witness ==
  /\ nin # None /\ nin[1].kind = "naive"
  /\ noff # 0
  /\ n2.st = "ok" /\ n2.val # nin

-----------------------------------------------------------------------------
(* The parser's state machine: an input text and a clock reading are       *)
(* drawn, then _extract_due and _parse_input are applied to them.          *)

MaxChunks == 2

\* The phrases the input texts are put together from.
Chunks ==
  { <<"call">>, <<"mom">>, <<"in">>, <<"at">>, <<"next">>, <<"pm">>,
    <<"in", "5", "m">>, <<"in", "30", "hours">>, <<"in", "150", "d">>,
    <<"tomorrow">>, <<"Tomorrow", "evening">>, <<"tomorrow", "at", "3pm">>,
    <<"today">>, <<"today", "at", "5:30">>,
    <<"next", "monday">>, <<"next", "thursday", "at", "5", "pm">>,
    <<"thu", "5">>, <<"thursday", "10">>, <<"monday", "9p">>, <<"mon", "12am">>,
    <<"on", "february", "29">>, <<"february", "30">>,
    <<"march", "1st", "at", "10">>, <<"december", "25">>,
    <<"on", "2025-01-05">>, <<"on", "2025-01-05", "5:30">>, <<"on", "2024-02-30">>,
    <<"at", "5">>, <<"At", "12am">>, <<"at", "25">>, <<"at", "5:75">>,
    <<"remind", "me", "to">>, <<"Remind", "me">>, <<"remember", "that">>,
    <<"remember">>, <<"note:">> }

RECURSIVE TextsOf(_)
TextsOf(n) ==
  IF n = 0 THEN {<<>>}
  ELSE LET shorter == TextsOf(n - 1)
       IN shorter \cup {a \o c : a \in shorter, c \in Chunks}

Texts == TextsOf(MaxChunks) \ {<<>>}

\* Readings of datetime.now(): a leap day (a Thursday), the last minutes of a
\* year (a Sunday), and an early Monday morning.
Nows ==
  { DT(2024, 2, 29, 10, 30, 15, 250),
    DT(2023, 12, 31, 23, 50, 0, 0),
    DT(2024, 3, 4, 4, 0, 7, 0) }

ParseInit ==
  /\ NotifierIdle
  /\ MemoriesIdle
  /\ NormalizerIdle
  /\ ExpanderIdle
  /\ StoreIdle
  /\ ptext \in Texts
  /\ pnow \in Nows
  /\ xres = Idle
  /\ pres = IdleParse

\* A call of _extract_due(ptext), as POST /tasks makes it.
DoExtract ==
  /\ xres.st = "idle"
  /\ xres' = ExtractDue(ptext, pnow)
  /\ UNCHANGED <<ptext, pnow, pres>>
  /\ UNCHANGED <<nvars, evars, svars, tvars, mvars>>

\* A call of _parse_input(ptext), as POST /capture makes it.
DoParse ==
  /\ pres.st = "idle"
  /\ pres' = ParseInput(ptext, pnow)
  /\ UNCHANGED <<ptext, pnow, xres>>
  /\ UNCHANGED <<nvars, evars, svars, tvars, mvars>>

ParseNext == DoExtract \/ DoParse

SpecParse == ParseInit /\ [][ParseNext]_vars

-----------------------------------------------------------------------------
(* The parser over a week: the phrases that name a weekday or a calendar   *)
(* day, read on each day of one week at several times of the day.          *)

\* Phrases of the weekday and month-day recognizers.
DayPhrases ==
  { <<"next", "monday">>, <<"next", "thursday">>, <<"next", "sunday">>,
    <<"next", "monday", "at", "5">>, <<"next", "thursday", "at", "5", "pm">>,
    <<"Next", "sunday", "at", "12am">>, <<"next", "monday", "at", "5:30">>,
    <<"next", "thursday", "at", "25">>,
    <<"monday", "10">>, <<"mon", "5:30">>, <<"thu", "5">>, <<"thursday", "3pm">>,
    <<"sunday", "12am">>, <<"sunday", "9p">>, <<"thu", "12", "a">>,
    <<"march", "5">>, <<"on", "march", "10">>, <<"march", "10", "at", "5", "pm">>,
    <<"march", "12">>, <<"on", "march", "1st", "at", "10">>, <<"december", "25">>,
    <<"on", "february", "29">>, <<"march", "5", "9p">> }

\* A phrase alone, after a word, before a word.
WeekTexts ==
  DayPhrases \cup {<<"call">> \o c : c \in DayPhrases} \cup {c \o <<"mom">> : c \in DayPhrases}

\* Readings of datetime.now() from Monday 4 March 2024 to Sunday 10 March:
\* in the night, at 09:00 and 10:00 sharp, in the afternoon, before midnight.
WeekNows ==
  { DT(2024, 3, d, c[1], c[2], c[3], c[4]) :
      d \in 4..10,
      c \in { <<0, 0, 0, 0>>, <<4, 0, 7, 0>>, <<9, 0, 0, 0>>, <<10, 0, 0, 0>>,
              <<15, 0, 30, 500>>, <<23, 50, 0, 0>> } }

WeekInit ==
  /\ NotifierIdle
  /\ MemoriesIdle
  /\ NormalizerIdle
  /\ ExpanderIdle
  /\ StoreIdle
  /\ ptext \in WeekTexts
  /\ pnow \in WeekNows
  /\ xres = Idle
  /\ pres = IdleParse

SpecWeek == WeekInit /\ [][ParseNext]_vars

-----------------------------------------------------------------------------
(* Properties of the parser and the classifier.                            *)

\* The first recognizer whose pattern matches the text t (0: none does).
FirstRecognizer(t) ==
  IF \E k \in 1..NRecognizers : MatchOf(k, t).found
  THEN CHOOSE k \in 1..NRecognizers :
         MatchOf(k, t).found /\ \A j \in 1..(k - 1) : ~MatchOf(j, t).found
  ELSE 0

\* C2: _extract_due and _parse_input return a result for every text and every
\* clock reading; they never raise, whatever clock or calendar value the
\* matched phrase carries.
C2_NeverRaises == xres.st # "raise" /\ pres.st # "raise"

\* C3: the timestamp _extract_due returns is the one the first recognizer (in
\* the fixed order) whose pattern matches the text computes, and the residual
\* text is the text less what that recognizer matched: later recognizers
\* change neither, so the phrases only they match stay in the residual text.
C3_SingleShot ==
  xres.st = "ok" =>
    LET k == FirstRecognizer(ptext)
    IN IF k = 0
       THEN xres.due = None /\ xres.text = ptext
       ELSE /\ xres.due = Some(IsoNaive(DateOf(k, ptext, pnow).dt))
            /\ xres.text = RemoveAll(ptext, Span(ptext, MatchOf(k, ptext)))

\* C3's case: "tomorrow" made the timestamp and a bare "at <time>" that the
\* last recognizer matches is still in the residual text.
C3_Witness ==
  /\ xres.st = "ok"
  /\ FirstRecognizer(ptext) = 2
  /\ MAt(ptext).found
  /\ MAt(xres.text).found

\* C4: _parse_input returns kind "task" exactly when _extract_due returned a
\* timestamp for the prefix-stripped text or the trimmed original text holds a
\* cue, and kind "memory" otherwise; the text and the due it returns are the
\* parser's residual text and timestamp.
C4_KindTaskIff ==
  pres.st # "idle" =>
    LET r == ExtractDue(StripPrefixes(ptext), pnow)
        task == (r.st = "ok" /\ r.due # None) \/ LooksReminder(ptext)
    IN /\ pres.st = "ok"
       /\ pres.kind = (IF task THEN "task" ELSE "memory")
       /\ r.st = "ok" => (pres.text = r.text /\ pres.due = r.due)

\* The hour a time with its suffix names: am / a and pm / p are read alike.
SpokenHour(tm) ==
  IF tm.ap \in {"pm", "p"} /\ tm.h < 12 THEN tm.h + 12
  ELSE IF tm.ap \in {"am", "a"} /\ tm.h = 12 THEN 0
  ELSE tm.h

SpokenMinute(tm) == IF tm.m = -1 THEN 0 ELSE tm.m

\* The days from the date of a to the date of b.
DaysAhead(a, b) == DaysFromCivil(b.y, b.mo, b.d) - DaysFromCivil(a.y, a.mo, a.d)

\* The datetime _extract_due returned.
DueReturned == xres.due[1].dt

\* The recognizer k made the result returned.
MadeBy(k) == xres.st = "ok" /\ FirstRecognizer(ptext) = k

\* C15: a result of the weekday-with-time recognizer (suffix none, am, pm,
\* a or p) falls on the named weekday at the clock time given; it is 7 days
\* after today when the named weekday is today's and the time given is not
\* after the current hour:minute, and 0 to 6 days ahead (the nearest such
\* day) otherwise; it is always later than now.
C15_WeekdayTime ==
  MadeBy(5) =>
    LET m == MWeekdayTime(ptext)
        late == SpokenHour(m.time) * 60 + SpokenMinute(m.time) <= pnow.h * 60 + pnow.mi
    IN /\ Weekday(DueReturned) = m.target
       /\ DueReturned.h = SpokenHour(m.time)
       /\ DueReturned.mi = SpokenMinute(m.time)
       /\ DaysAhead(pnow, DueReturned) =
            IF Weekday(pnow) = m.target /\ late THEN 7 ELSE (m.target - Weekday(pnow)) % 7
       /\ DTLess(pnow, DueReturned)

\* The text t less the words of the one span m.
WithoutSpan(t, m) == SubSeq(t, 1, m.i - 1) \o SubSeq(t, m.i + m.len, Len(t))

\* C16: when a recognizer matches, the residual text is the input less the
\* one matched span: every word outside that span is still there, in its
\* place, another occurrence of the same words included.
C16_OnlyTheSpan ==
  (xres.st = "ok" /\ FirstRecognizer(ptext) # 0) =>
    xres.text = WithoutSpan(ptext, MatchOf(FirstRecognizer(ptext), ptext))

\* C17: every timestamp _extract_due returns, the relative offset's
\* included, has its seconds and microseconds at zero.
C17_SecondsZero ==
  (xres.st = "ok" /\ xres.due # None) => (DueReturned.s = 0 /\ DueReturned.us = 0)

\* C18: a result of "next <weekday>", on every weekday it is said, falls on
\* the named weekday 1 to 7 days after today: the nearest such day after
\* today, 7 days on when the named weekday is today's; at the clock time
\* given, or at 09:00 when none is given.
C18_NextWeekday ==
  MadeBy(4) =>
    LET m == MNextWeekday(ptext)
    IN /\ Weekday(DueReturned) = m.target
       /\ DaysAhead(pnow, DueReturned) \in 1..7
       /\ DaysAhead(pnow, DueReturned) = 7 <=> Weekday(pnow) = m.target
       /\ DueReturned.h = (IF m.time.ok THEN SpokenHour(m.time) ELSE 9)
       /\ DueReturned.mi = (IF m.time.ok THEN SpokenMinute(m.time) ELSE 0)

\* C18's case: "next <weekday>" with a pm time said on that weekday.
C18_Witness ==
  /\ MadeBy(4)
  /\ Weekday(pnow) = MNextWeekday(ptext).target
  /\ MNextWeekday(ptext).time.ok
  /\ DaysAhead(pnow, DueReturned) = 7
  /\ DueReturned.h = 17

\* C19: a result of the month-day recognizers (with and without "on") is
\* that month and day at 09:00 or at the time given, in the current year,
\* or in the next year when that date at midnight is before now: a date
\* before today, and today's own date once midnight has passed.
C19_MonthDay ==
  (MadeBy(6) \/ MadeBy(7)) =>
    LET m == MMonthDay(ptext, MadeBy(6))
        passed == DTLess(DT(pnow.y, m.mo, m.da, 0, 0, 0, 0), pnow)
    IN /\ DueReturned.y = (IF passed THEN pnow.y + 1 ELSE pnow.y)
       /\ DueReturned.mo = m.mo
       /\ DueReturned.d = m.da
       /\ DueReturned.h = (IF m.time.ok THEN SpokenHour(m.time) ELSE 9)
       /\ DueReturned.mi = (IF m.time.ok THEN SpokenMinute(m.time) ELSE 0)

-----------------------------------------------------------------------------
(* _expand_recurring_task (storage.py).                                    *)

\* A datetime object: aware (with the UTC offset off, in minutes) or naive.
Aware(dt, off) == [dt |-> dt, off |-> off, aware |-> TRUE]
Naive(dt) == [dt |-> dt, off |-> 0, aware |-> FALSE]

\* if x.tzinfo is None: x = x.replace(tzinfo=timezone.utc)
AsUTC(x) == IF x.aware THEN x ELSE Aware(x.dt, 0)

\* a < b on aware datetimes: the instants are compared.
Before(a, b) ==
  \/ MinuteOf(a.dt) - a.off < MinuteOf(b.dt) - b.off
  \/ /\ MinuteOf(a.dt) - a.off = MinuteOf(b.dt) - b.off
     /\ (a.dt.s < b.dt.s \/ (a.dt.s = b.dt.s /\ a.dt.us < b.dt.us))

\* dateutil's parse(): ISO strings and the loosely written dates are read,
\* the other strings raise ParserError.
ParseDate(due) ==
  CASE due.kind = "aware"            -> [ok |-> TRUE, val |-> Aware(due.dt, due.off)]
    [] due.kind \in {"naive", "loose"} -> [ok |-> TRUE, val |-> Naive(due.dt)]
    [] OTHER                         -> [ok |-> FALSE, val |-> Naive(ZeroDT)]

\* Python's truth of an optional string: None and "" are false.
Truthy(due) == due # None /\ due[1].kind # "empty"

\* An RRULE string.  kind "rule": FREQ=freq;INTERVAL=interval[;COUNT=count]
\* (count 0: the rule has no COUNT and no UNTIL); "malformed": a string
\* rrulestr rejects with ValueError; "empty": the empty string.
RuleStr(kind, freq, interval, count) ==
  [kind |-> kind, freq |-> freq, interval |-> interval, count |-> count]

Malformed == RuleStr("malformed", "", 0, 0)
EmptyRule == RuleStr("empty", "", 0, 0)

\* A row of table tasks.
Task(id, title, due, done, notified, rule) ==
  [id |-> id, title |-> title, due |-> due, done |-> done,
   notified_at |-> notified, rrule |-> rule]

\* A task as list_tasks returns it: the row itself (the id is the row's, no
\* is_recurring_instance and no parent_task_id key), or the copy made for an
\* occurrence (the id is "<id>_r_<stamp>").
AsItem(task) ==
  [id |-> [n |-> task.id, stamp |-> None], title |-> task.title, due |-> task.due,
   done |-> task.done, notified_at |-> task.notified_at, rrule |-> task.rrule,
   is_recurring_instance |-> FALSE, parent_task_id |-> None]

\* occurrence.strftime('%Y%m%d_%H%M%S'): the wall-clock reading to the second.
Stamp(o) == [o.dt EXCEPT !.us = 0]

\* A copy whose id carries the occurrence's day only.
InstanceOfDay(task, o) ==
  [id |-> [n |-> task.id, stamp |-> Some([o.dt EXCEPT !.h = 0, !.mi = 0, !.s = 0, !.us = 0])],
   title |-> task.title, due |-> Some(IsoAware(o.dt, o.off)),
   done |-> task.done, notified_at |-> task.notified_at, rrule |-> task.rrule,
   is_recurring_instance |-> TRUE, parent_task_id |-> Some(task.id)]

InstanceOf(task, o) ==
  [id |-> [n |-> task.id, stamp |-> Some(Stamp(o))], title |-> task.title,
   due |-> Some(IsoAware(o.dt, o.off)),
   done |-> task.done, notified_at |-> task.notified_at, rrule |-> task.rrule,
   is_recurring_instance |-> TRUE, parent_task_id |-> Some(task.id)]

\* x + relativedelta(months=n): the day is cut to the month's last day.
AddMonths(dt, n) ==
  LET m0 == dt.mo - 1 + n
      y  == dt.y + m0 \div 12
      mo == (m0 % 12) + 1
      dm == DaysInMonth(y, mo)
  IN [dt EXCEPT !.y = y, !.mo = mo, !.d = IF dt.d > dm THEN dm ELSE dt.d]

PeriodMinutes(freq) == IF freq = "DAILY" THEN 1440 ELSE 10080

\* The k-th instant (from 0) of the rule's sequence: dateutil starts at
\* dtstart with the microseconds dropped and keeps dtstart's zone.
Occurrence(rule, dtstart, k) ==
  Aware(AddMinutes([dtstart.dt EXCEPT !.us = 0], k * rule.interval * PeriodMinutes(rule.freq)),
        dtstart.off)

\* Whether the rule's iterator is exhausted after k instants.
Exhausted(rule, k) == rule.count # 0 /\ k >= rule.count

ExpandOk(items, seen) == [st |-> "ok", items |-> items, seen |-> seen]

\* "if occurrence >= end_date: break": the end of the window is excluded.
PastEndExclusive(o, end_date) == ~Before(o, end_date)

\* "if occurrence > end_date: break"
PastEnd(o, end_date) == Before(end_date, o)

\* "if occurrence >= start_date"
FromStart(o, start_date) == ~Before(o, start_date)

\* Whether the loop "for occurrence in rrule_obj" ends before its (k+1)-th
\* pass appends anything: the iterator is exhausted or the pass breaks.
Stops(rule, dtstart, end_date, k) ==
  Exhausted(rule, k) \/ PastEnd(Occurrence(rule, dtstart, k), end_date)

\* The most passes of the loop that are followed.
Horizon == 40

\* The number of passes made before the one that ends the loop, plus one
\* (0: the loop is still running after Horizon passes).
Passes(rule, dtstart, end_date) ==
  FirstIdx({j \in 1..(Horizon + 1) : Stops(rule, dtstart, end_date, j - 1)})

\* task_copy for each of the occurrences.
Instances(task, occs) == [j \in 1..Len(occs) |-> InstanceOf(task, occs[j])]

\* The instants of the passes 1..n that are not before start_date, in order.
Kept(rule, dtstart, start_date, n) ==
  LET InWindow(o) == FromStart(o, start_date)
  IN SelectSeq([j \in 1..n |-> Occurrence(rule, dtstart, j - 1)], InWindow)

\* The loop as a whole, given the number i of Passes: the list occurrences
\* it leaves, and how many instants it drew from the iterator.
Enumerate(task, rule, dtstart, start_date, end_date, i) ==
  IF i = 0 THEN [st |-> "running", items |-> <<>>, seen |-> Horizon + 1]
  ELSE ExpandOk(Instances(task, Kept(rule, dtstart, start_date, i - 1)),
                IF Exhausted(rule, i - 1) THEN i - 1 ELSE i)

\* An except block that returns no task at all.
OnErrorDrop(task) == ExpandOk(<<>>, 0)

\* "except Exception: return [task]"
OnError(task) == ExpandOk(<<AsItem(task)>>, 0)

\* Six weeks instead of six months.
DefaultEndWeeks(start_date) == [start_date EXCEPT !.dt = AddDays(@, 42)]

\* "end_date = start_date + relativedelta(months=6)"
DefaultEnd(start_date) == [start_date EXCEPT !.dt = AddMonths(@, 6)]

\* The window the loop runs with: start_date defaults to now (UTC), end_date
\* to six months after the start; naive bounds are read as UTC.
WindowStart(start_date, now) ==
  IF start_date = None THEN Aware(now, 0) ELSE AsUTC(start_date[1])

WindowEnd(end_date, from) ==
  IF end_date = None THEN DefaultEnd(from) ELSE AsUTC(end_date[1])

\* The try block once due and rrule are known to be set.
TryExpand(task, due_dt, start_date, end_date) ==
  IF ~due_dt.ok \/ task.rrule[1].kind = "malformed" \/ ~ValidDT(end_date.dt)
  THEN OnError(task)
  ELSE Enumerate(task, task.rrule[1], AsUTC(due_dt.val), start_date, end_date,
                 Passes(task.rrule[1], AsUTC(due_dt.val), end_date))

\* Whether the task has both an rrule and a due (as Python's truth reads them).
Recurs(task) == task.rrule # None /\ task.rrule[1].kind # "empty" /\ Truthy(task.due)

\* _expand_recurring_task(task, start_date, end_date) called at time now.
ExpandRecurringTask(task, start_date, end_date, now) ==
  IF ~Recurs(task) THEN ExpandOk(<<AsItem(task)>>, 0)
  ELSE TryExpand(task, ParseDate(task.due[1]),
                 WindowStart(start_date, now),
                 WindowEnd(end_date, WindowStart(start_date, now)))

-----------------------------------------------------------------------------
(* The expander's state machine: a task, a window and a clock reading are  *)
(* drawn, then _expand_recurring_task is applied to them.                  *)

Weekly4 == RuleStr("rule", "WEEKLY", 1, 4)
WeeklyForever == RuleStr("rule", "WEEKLY", 1, 0)
EveryTenthDay == RuleStr("rule", "DAILY", 10, 0)

ExpandRules == {None, Some(EmptyRule), Some(Malformed),
                Some(Weekly4), Some(WeeklyForever), Some(EveryTenthDay)}

\* 2024-01-01T09:00:00+00:00, the same instant written with +02:00 and with
\* microseconds, a naive anchor, an unreadable due, no due, an empty due.
ExpandDues ==
  {None,
   Some(DueStr("empty", ZeroDT, 0, 0)),
   Some(DueStr("bad", ZeroDT, 0, 1)),
   Some(IsoAware(DT(2024, 1, 1, 9, 0, 0, 0), 0)),
   Some(IsoAware(DT(2024, 1, 1, 11, 0, 0, 500), 120)),
   Some(IsoNaive(DT(2024, 1, 8, 9, 0, 0, 0)))}

ExpandTasks == {Task(7, "t", due, FALSE, None, rule) : due \in ExpandDues, rule \in ExpandRules}

ExpandStarts ==
  {None,
   Some(Aware(DT(2024, 1, 8, 9, 0, 0, 0), 0)),
   Some(Aware(DT(2024, 1, 8, 10, 0, 0, 0), 60)),
   Some(Naive(DT(2024, 1, 1, 0, 0, 0, 0)))}

ExpandEnds ==
  {None,
   Some(Aware(DT(2024, 1, 15, 9, 0, 0, 0), 0)),
   Some(Naive(DT(2024, 1, 22, 8, 59, 0, 0))),
   Some(Aware(DT(2023, 12, 1, 0, 0, 0, 0), 0))}

\* Readings of datetime.now(timezone.utc).
ExpandNows ==
  { DT(2023, 6, 15, 12, 0, 0, 0),
    DT(2023, 7, 8, 9, 0, 0, 0),
    DT(2023, 8, 31, 23, 50, 0, 0),
    DT(2024, 1, 1, 9, 0, 0, 0),
    DT(2024, 1, 10, 12, 0, 30, 0),
    DT(2024, 3, 4, 4, 0, 7, 0) }

ExpandInit ==
  /\ NotifierIdle
  /\ MemoriesIdle
  /\ ParserIdle
  /\ NormalizerIdle
  /\ StoreIdle
  /\ etask \in {Some(t) : t \in ExpandTasks}
  /\ estart \in ExpandStarts
  /\ eend \in ExpandEnds
  /\ enow \in ExpandNows
  /\ eres = NotExpanded

\* A call of _expand_recurring_task(etask, estart, eend).
DoExpand ==
  /\ eres.st = "idle"
  /\ eres' = ExpandRecurringTask(etask[1], estart, eend, enow)
  /\ UNCHANGED <<etask, estart, eend, enow>>
  /\ UNCHANGED <<pvars, nvars, svars, tvars, mvars>>

ExpandNext == DoExpand

SpecExpand == ExpandInit /\ [][ExpandNext]_vars

-----------------------------------------------------------------------------
(* Properties of the expander.                                             *)

\* The task of the spec's example: due 2024-01-01T09:00:00Z, FREQ=WEEKLY;COUNT=4.
ExampleTask ==
  Task(7, "t", Some(IsoAware(DT(2024, 1, 1, 9, 0, 0, 0), 0)), FALSE, None, Some(Weekly4))

ExampleDues ==
  << IsoAware(DT(2024, 1, 1, 9, 0, 0, 0), 0), IsoAware(DT(2024, 1, 8, 9, 0, 0, 0), 0),
     IsoAware(DT(2024, 1, 15, 9, 0, 0, 0), 0), IsoAware(DT(2024, 1, 22, 9, 0, 0, 0), 0) >>

\* The dues of the records returned, in the order returned.
DuesReturned == [i \in 1..Len(eres.items) |-> eres.items[i].due[1]]

ExampleCall ==
  /\ eres.st # "idle"
  /\ etask = Some(ExampleTask)
  /\ estart = None
  /\ eend = None

\* C6 as stated: the example task expanded with no window gives exactly the
\* four occurrences of 1, 8, 15 and 22 January 2024 at 09:00Z, in ascending
\* order, whatever the time of the call.
C6_ExactlyFour ==
  ExampleCall => (eres.st = "ok" /\ DuesReturned = ExampleDues)

\* C6 as amended: the example task expanded with no window at time now gives
\* exactly those of the four occurrences that lie between now and six months
\* after now (both inclusive), in ascending order.
C6_FourWithinDefaultWindow ==
  ExampleCall =>
    LET InDefaultWindow(due) ==
          /\ ~Before(Aware(due.dt, due.off), Aware(enow, 0))
          /\ ~Before(Aware(AddMonths(enow, 6), 0), Aware(due.dt, due.off))
    IN eres.st = "ok" /\ DuesReturned = SelectSeq(ExampleDues, InDefaultWindow)

\* C6's case: the call is made when only some of the four are in the window.
C6_Witness ==
  /\ ExampleCall
  /\ eres.st = "ok"
  /\ Len(eres.items) = 2
  /\ DTLess(enow, DT(2024, 1, 1, 0, 0, 0, 0))

\* The task, the rule and the window of a call with a valid rule and a due
\* anchor.
ValidCall ==
  /\ eres.st # "idle"
  /\ Recurs(etask[1])
  /\ etask[1].rrule[1].kind = "rule"
  /\ ParseDate(etask[1].due[1]).ok

\* The k-th instant of the rule of the task expanded (from 0), whether the
\* rule has one, and whether it is after the window's end.
InstantNo(k) == Occurrence(etask[1].rrule[1], AsUTC(ParseDate(etask[1].due[1]).val), k)
HasInstant(k) == etask[1].rrule[1].count = 0 \/ k < etask[1].rrule[1].count
WindowFrom == WindowStart(estart, enow)
WindowTo == WindowEnd(eend, WindowFrom)
AfterWindow(k) == HasInstant(k) /\ Before(WindowTo, InstantNo(k))
InWindow(k) ==
  HasInstant(k) /\ ~Before(InstantNo(k), WindowFrom) /\ ~Before(WindowTo, InstantNo(k))

\* C7: for a task with a valid rrule and a due anchor, the call returns one
\* occurrence record for each instant of the rule between start and end (both
\* inclusive) and nothing else, in non-decreasing chronological order; the
\* enumeration draws no instant beyond the first one after end, so it ends
\* for a rule without COUNT or UNTIL as well.
C7_ExactlyTheWindow ==
  ValidCall =>
    /\ eres.st = "ok"
    /\ \A k \in 0..Horizon :
         InWindow(k) =>
           Cardinality({i \in 1..Len(eres.items) :
                          eres.items[i].due = Some(IsoAware(InstantNo(k).dt, InstantNo(k).off))}) = 1
    /\ \A i \in 1..Len(eres.items) :
         \E k \in 0..Horizon :
           /\ InWindow(k)
           /\ eres.items[i].due = Some(IsoAware(InstantNo(k).dt, InstantNo(k).off))
           /\ eres.items[i].is_recurring_instance
           /\ eres.items[i].parent_task_id = Some(etask[1].id)
    /\ \A i, j \in 1..Len(eres.items) :
         i < j => ~Before(Aware(DuesReturned[j].dt, DuesReturned[j].off),
                          Aware(DuesReturned[i].dt, DuesReturned[i].off))
    /\ IF \E k \in 0..Horizon : AfterWindow(k)
       THEN \E k \in 0..Horizon :
              /\ AfterWindow(k)
              /\ \A j \in 0..(k - 1) : ~AfterWindow(j)
              /\ eres.seen = k + 1
       ELSE eres.seen = etask[1].rrule[1].count

\* C7's case: a rule without COUNT, an instant before the window skipped, and
\* the instants on the window's two bounds returned.
C7_Witness ==
  /\ ValidCall
  /\ eres.st = "ok"
  /\ etask[1].rrule[1].count = 0
  /\ estart # None /\ eend # None
  /\ Before(InstantNo(0), WindowFrom)
  /\ Len(eres.items) = 2
  /\ ~Before(WindowFrom, Aware(DuesReturned[1].dt, DuesReturned[1].off))
  /\ ~Before(Aware(DuesReturned[2].dt, DuesReturned[2].off), WindowTo)

\* A call whose rrule is malformed or whose evaluation throws (the due
\* anchor cannot be read).
ThrowingCall ==
  /\ eres.st # "idle"
  /\ etask[1].rrule # None /\ etask[1].rrule[1].kind # "empty"
  /\ Truthy(etask[1].due)
  /\ (etask[1].rrule[1].kind = "malformed" \/ ~ParseDate(etask[1].due[1]).ok)

\* C8: when the rrule is malformed or its evaluation throws, the call raises
\* nothing and returns the one-element list of the task record unchanged: the
\* same id and due, not marked as an instance, without a parent.
C8_FailsOpen ==
  ThrowingCall =>
    /\ eres.st = "ok"
    /\ Len(eres.items) = 1
    /\ eres.items[1].id = [n |-> etask[1].id, stamp |-> None]
    /\ eres.items[1].due = etask[1].due
    /\ eres.items[1].title = etask[1].title
    /\ eres.items[1].rrule = etask[1].rrule
    /\ ~eres.items[1].is_recurring_instance
    /\ eres.items[1].parent_task_id = None

\* C8's case: a malformed rrule on a task whose due reads well.
C8_Witness ==
  /\ ThrowingCall
  /\ etask[1].rrule[1].kind = "malformed"
  /\ ParseDate(etask[1].due[1]).ok
  /\ eres.st = "ok"

-----------------------------------------------------------------------------
(* The task store (storage.py): table tasks and the functions that write   *)
(* it.  Each gives the table and the AUTOINCREMENT counter it leaves, and  *)
(* what it returns.                                                        *)

\* The most rows the table is followed with.
MaxId == 2

Ids == 1..MaxId

NoRows == [i \in Ids |-> None]

Max(a, b) == IF a >= b THEN a ELSE b

Stored(ts, nid, st, row) == [st |-> st, tasks |-> ts, nextId |-> nid, row |-> row]

\* INSERT INTO tasks(title, due, done, created, tags, rrule) with the due as
\* normalized (n); the normalizer's exception leaves the table as it is.
InsertNormalized(ts, nid, title, n, rule) ==
  IF n.st = "raise" THEN Stored(ts, nid, "raise", None)
  ELSE Stored([ts EXCEPT ![nid] = Some(Task(nid, title, n.val, FALSE, None, rule))],
              nid + 1, "ok", Some(Task(nid, title, n.val, FALSE, None, rule)))

\* add_task(title, due, rrule) in a zone off minutes from UTC.
AddTask(ts, nid, title, due, rule, off) ==
  InsertNormalized(ts, nid, title, Normalize(due, off), rule)

\* The fields of update_task(task_id, **fields): each is None when the
\* keyword is not given.
Fields(title, due, done, rule) == [title |-> title, due |-> due, done |-> done, rrule |-> rule]

NoFields == Fields(None, None, None, None)

\* An update that makes the row due for notification again when it is given
\* a due.
UpdatedRearmed(row, f, n) ==
  [row EXCEPT !.title = IF f.title = None THEN @ ELSE f.title[1],
              !.due = IF f.due = None THEN @ ELSE n.val,
              !.done = IF f.done = None THEN @ ELSE f.done[1],
              !.rrule = IF f.rrule = None THEN @ ELSE f.rrule,
              !.notified_at = IF f.due = None THEN @ ELSE None]

\* The row after "UPDATE tasks SET ..." with the due as given in n.
Updated(row, f, n) ==
  [row EXCEPT !.title = IF f.title = None THEN @ ELSE f.title[1],
              !.due = IF f.due = None THEN @ ELSE n.val,
              !.done = IF f.done = None THEN @ ELSE f.done[1],
              !.rrule = IF f.rrule = None THEN @ ELSE f.rrule]

UpdateNormalized(ts, nid, id, f, n) ==
  IF f = NoFields THEN Stored(ts, nid, "none", None)
  ELSE IF f.due # None /\ n.st = "raise" THEN Stored(ts, nid, "raise", None)
  ELSE IF ts[id] = None THEN Stored(ts, nid, "none", None)
  ELSE Stored([ts EXCEPT ![id] = Some(Updated(ts[id][1], f, n))], nid, "ok",
              Some(Updated(ts[id][1], f, n)))

\* An update_task that writes the due without normalizing it.
UpdateTaskRaw(ts, nid, id, f, off) ==
  UpdateNormalized(ts, nid, id, f, Ret(IF f.due = None THEN None ELSE f.due[1]))

\* update_task(task_id, **fields); a due given is the optional string
\* f.due[1].
UpdateTask(ts, nid, id, f, off) ==
  UpdateNormalized(ts, nid, id, f,
                   IF f.due = None THEN Ret(None) ELSE Normalize(f.due[1], off))

\* mark_done(task_id, done)
MarkDone(ts, nid, id, done) ==
  IF ts[id] = None THEN Stored(ts, nid, "none", None)
  ELSE Stored([ts EXCEPT ![id] = Some([ts[id][1] EXCEPT !.done = done])], nid, "ok",
              Some([ts[id][1] EXCEPT !.done = done]))

\* delete_task(task_id): whether a row was deleted.
DeleteTask(ts, nid, id) ==
  IF ts[id] = None THEN Stored(ts, nid, "none", None)
  ELSE Stored([ts EXCEPT ![id] = None], nid, "ok", None)

\* import_task(task_data, overwrite) with the due as normalized (n): the
\* status it returns.  An inserted id moves the AUTOINCREMENT counter past it.
ImportNormalized(ts, nid, row, overwrite, n) ==
  IF ts[row.id] # None /\ ~overwrite THEN Stored(ts, nid, "skipped", None)
  ELSE IF n.st = "raise" THEN Stored(ts, nid, "failed", None)
  ELSE Stored([ts EXCEPT ![row.id] = Some([row EXCEPT !.due = n.val])],
              Max(nid, row.id + 1),
              IF ts[row.id] # None THEN "updated" ELSE "inserted", None)

ImportTask(ts, nid, row, overwrite, off) ==
  ImportNormalized(ts, nid, row, overwrite, Normalize(row.due, off))

\* A row of table memories (the tags, found in the text by _tags_from, are
\* left out).
Memory(id, text, created) == [id |-> id, text |-> text, created |-> created]

Remembered(ms, nm, st) == [st |-> st, memories |-> ms, nextMem |-> nm]

\* add_memory(text) at time now (datetime.utcnow()).
AddMemory(ms, nm, text, now) ==
  Remembered([ms EXCEPT ![nm] = Some(Memory(nm, text, IsoNaive(now)))], nm + 1, "ok")

\* delete_memory(memory_id): whether a row was deleted.
DeleteMemory(ms, nm, id) ==
  IF ms[id] = None THEN Remembered(ms, nm, "none") ELSE Remembered([ms EXCEPT ![id] = None], nm, "ok")

\* An import_memory that gives a memory that is already there a new row
\* under the next free id.
ImportMemoryAsNew(ms, nm, row, overwrite) ==
  IF ms[row.id] # None /\ nm \in Ids
  THEN Remembered([ms EXCEPT ![nm] = Some([row EXCEPT !.id = nm])], nm + 1, "inserted")
  ELSE IF ms[row.id] # None THEN Remembered(ms, nm, "skipped")
  ELSE Remembered([ms EXCEPT ![row.id] = Some(row)], Max(nm, row.id + 1), "inserted")

\* import_memory(memory_data, overwrite): the status it returns.  The row
\* given has id, text and created, so neither statement raises.
ImportMemory(ms, nm, row, overwrite) ==
  IF ms[row.id] # None /\ ~overwrite THEN Remembered(ms, nm, "skipped")
  ELSE Remembered([ms EXCEPT ![row.id] = Some(row)], Max(nm, row.id + 1),
            IF ms[row.id] # None THEN "updated" ELSE "inserted")

\* "SELECT * FROM ... ORDER BY id ASC": the rows of a table, by ascending id.
AllRows(t) ==
  [p \in 1..Cardinality({id \in Ids : t[id] # None}) |->
     t[CHOOSE id \in Ids :
         t[id] # None /\ Cardinality({k \in Ids : t[k] # None /\ k < id}) = p - 1][1]]

\* get_all_memories() and get_all_tasks()
GetAllMemories(ms) == AllRows(ms)
GetAllTasks(ts) == AllRows(ts)

-----------------------------------------------------------------------------
(* list_tasks (storage.py).                                                *)

\* The order of strings, as SQLite's ORDER BY and Python's sort compare the
\* due column: a string stands for the tuple of numbers that compares as it
\* does.  ISO strings ("YYYY-MM-DDTHH:MM:SS[.ffffff][+HH:MM]") compare field
\* by field, a string with a fraction after one without, "+" before "-";
\* '9999' comes before an ISO string of the year 9999 and after the others;
\* the strings that are no ISO dates ("Jan 5 2024 9am", "soon", "whenever")
\* begin with a letter and come last, in this order.
IsoKey(due) ==
  << 1, due.dt.y, due.dt.mo, due.dt.d, due.dt.h, due.dt.mi, due.dt.s,
     IF due.dt.us = 0 THEN 0 ELSE 1, due.dt.us,
     IF due.kind = "naive" THEN 0 ELSE IF due.off >= 0 THEN 1 ELSE 2,
     (IF due.off >= 0 THEN due.off ELSE -due.off) \div 60,
     (IF due.off >= 0 THEN due.off ELSE -due.off) % 60 >>

Key9999 == << 1, 9999, 0, 0, 0, 0, 0, 0, 0, 0, 0, 0 >>

\* x.get('due') or '9999', and COALESCE(due, '9999').
DueKey(due) ==
  IF ~Truthy(due) THEN Key9999
  ELSE IF due[1].kind \in {"naive", "aware"} THEN IsoKey(due[1])
  ELSE << 2, IF due[1].kind = "loose" THEN 0 ELSE due[1].raw, 0, 0, 0, 0, 0, 0, 0, 0, 0, 0 >>

KeyLess(a, b) ==
  \E i \in 1..Len(a) : a[i] < b[i] /\ \A j \in 1..(i - 1) : a[j] = b[j]

\* Whether a row or record (due a, id m) sorts before another (due b, id n):
\* by (due or '9999', -id) when open_only, by -id otherwise.
SortsBefore(open_only, a, m, b, n) ==
  IF open_only
  THEN KeyLess(DueKey(a) \o << -m >>, DueKey(b) \o << -n >>)
  ELSE -m < -n

\* list.sort(key=...), which is stable: the place of the i-th record.
Rank(items, open_only, i) ==
  Cardinality({j \in 1..Len(items) :
     \/ SortsBefore(open_only, items[j].due, items[j].id.n, items[i].due, items[i].id.n)
     \/ /\ ~SortsBefore(open_only, items[i].due, items[i].id.n, items[j].due, items[j].id.n)
        /\ j < i}) + 1

Arrange(items, ranks) ==
  [p \in 1..Len(items) |-> items[CHOOSE i \in 1..Len(items) : ranks[i] = p]]

Sorted(items, open_only) ==
  Arrange(items, [i \in 1..Len(items) |-> Rank(items, open_only, i)])

\* limit: int = 200
Limit == 200

\* expanded_tasks[:limit]
Take(items, n) == SubSeq(items, 1, IF Len(items) < n THEN Len(items) ELSE n)

\* "SELECT * FROM tasks [WHERE done=0] ORDER BY ... LIMIT ?": the rows as
\* records, in the order of the query.
Selected(ts, open_only, limit) ==
  LET Wanted(id) == ts[id] # None /\ (open_only => ~ts[id][1].done)
      Row(id) == AsItem(ts[id][1])
  IN Take(Sorted([p \in 1..Cardinality({id \in Ids : Wanted(id)}) |->
                    Row(CHOOSE id \in Ids :
                          Wanted(id) /\ Cardinality({k \in Ids : Wanted(k) /\ k > id}) = p - 1)],
                 open_only),
          limit)

\* The row a record returned by Selected stands for.
RowOf(item) ==
  Task(item.id.n, item.title, item.due, item.done, item.notified_at, item.rrule)

\* start_date / end_date: the query string parsed, None when it is absent,
\* empty or unreadable.
QueryDate(str) ==
  IF Truthy(str) /\ ParseDate(str[1]).ok THEN Some(AsUTC(ParseDate(str[1]).val)) ELSE None

\* Whether parse_date(x['due']) raises (a due that is set and unreadable).
Unreadable(due) == Truthy(due) /\ ~ParseDate(due[1]).ok

\* Whether the filter keeps a record with this due: a record without due is
\* kept, another one is kept when its instant is within the bounds given.
InRange(due, start_date, end_date) ==
  \/ ~Truthy(due)
  \/ /\ start_date # None => ~Before(AsUTC(ParseDate(due[1]).val), start_date[1])
     /\ end_date # None => ~Before(end_date[1], AsUTC(ParseDate(due[1]).val))

Part(raised, items) == [raised |-> raised, items |-> items]

\* The filter over the instances of a recurring task.
FilterInstances(instances, start_date, end_date) ==
  LET Keep(x) == InRange(x.due, start_date, end_date)
  IN IF start_date = None /\ end_date = None THEN Part(FALSE, instances)
     ELSE IF \E i \in 1..Len(instances) : Unreadable(instances[i].due)
     THEN Part(TRUE, <<>>)
     ELSE Part(FALSE, SelectSeq(instances, Keep))

\* The filter over a task without rrule: it looks at the query strings,
\* not at what was parsed from them.
FilterTask(item, start, end, start_date, end_date) ==
  IF ~Truthy(start) /\ ~Truthy(end) THEN Part(FALSE, <<item>>)
  ELSE IF Unreadable(item.due) THEN Part(TRUE, <<>>)
  ELSE IF InRange(item.due, start_date, end_date) THEN Part(FALSE, <<item>>)
  ELSE Part(FALSE, <<>>)

\* One pass of "for task in tasks".
Expanded(item, start, end, start_date, end_date, now) ==
  IF item.rrule # None /\ item.rrule[1].kind # "empty"
  THEN FilterInstances(ExpandRecurringTask(RowOf(item), start_date, end_date, now).items,
                       start_date, end_date)
  ELSE FilterTask(item, start, end, start_date, end_date)

Joined(a, b) == Part(a.raised \/ b.raised, a.items \o b.items)

\* expanded_tasks after the passes for the rows from the i-th on.
RECURSIVE Passed(_, _, _, _, _, _, _)
Passed(rows, i, start, end, start_date, end_date, now) ==
  IF i > Len(rows) THEN Part(FALSE, <<>>)
  ELSE Joined(Expanded(rows[i], start, end, start_date, end_date, now),
              Passed(rows, i + 1, start, end, start_date, end_date, now))

Listed(st, items) == [st |-> st, items |-> items]

\* "Sort again after expansion" and "return expanded_tasks[:limit]".
ListSorted(part, open_only, limit) ==
  IF part.raised THEN Listed("raise", <<>>)
  ELSE Listed("ok", Take(Sorted(part.items, open_only), limit))

\* list_tasks(open_only, limit, start, end) called at time now.
ListTasks(ts, open_only, limit, start, end, now) ==
  ListSorted(Passed(Selected(ts, open_only, limit), 1, start, end,
                    QueryDate(start), QueryDate(end), now),
             open_only, limit)

-----------------------------------------------------------------------------
(* The task interface (main.py) over the store: each action is one request *)
(* handled from beginning to end.                                          *)

\* "soon": a due no parser reads.
Soon == Some(DueStr("bad", ZeroDT, 0, 1))

\* A naive ISO due, an ISO due with the offset +05:30, and the empty string.
NaiveDue == Some(IsoNaive(DT(2024, 1, 1, 9, 0, 0, 0)))
OffsetDue == Some(IsoAware(DT(2024, 1, 8, 14, 30, 0, 0), 330))
EmptyDue == Some(DueStr("empty", ZeroDT, 0, 0))

Weekly2 == RuleStr("rule", "WEEKLY", 1, 2)

\* Bodies of POST /tasks (TaskIn).
TaskIn(title, due, rule) == [title |-> title, due |-> due, rrule |-> rule]

PostBodies ==
  { TaskIn(<<"call", "tomorrow">>, None, None),
    TaskIn(<<"call", "tomorrow">>, None, Some(Weekly2)),
    TaskIn(<<"at", "25">>, None, None),
    TaskIn(<<"call", "tomorrow">>, Soon, None),
    TaskIn(<<"call", "tomorrow">>, NaiveDue, Some(Weekly2)),
    TaskIn(<<"call", "tomorrow">>, OffsetDue, None),
    TaskIn(<<"call">>, EmptyDue, None) }

\* Bodies of PATCH /tasks/{id} (TaskPatch): a field left out is None.
PatchBodies ==
  { Fields(None, None, None, None),
    Fields(None, None, None, Some(Weekly2)),
    Fields(Some(<<"call">>), None, None, Some(Weekly2)),
    Fields(Some(<<"call">>), None, None, None),
    Fields(None, Some(Soon), None, None),
    Fields(None, Some(NaiveDue), None, None),
    Fields(None, Some(EmptyDue), None, None),
    Fields(None, Some(OffsetDue), Some(TRUE), None),
    Fields(None, None, Some(TRUE), None) }

\* The offsets of the server's local zone, and readings of its clock (UTC).
StoreOffsets == {60}
StoreNows == { DT(2023, 12, 31, 23, 50, 0, 0) }

\* Query strings of GET /tasks: "2024-01-01", "soon"; an end with offset.
StartInputs == {None, Some(IsoNaive(DT(2024, 1, 1, 0, 0, 0, 0))), Soon}
EndInputs == {None, Some(IsoAware(DT(2024, 1, 8, 9, 0, 0, 0), 0))}

\* Rows of an import file.
ImportRows ==
  {Task(id, <<"call">>, c.due, FALSE, None, c.rrule) :
     id \in Ids,
     c \in { [due |-> Soon, rrule |-> Some(Malformed)],
             [due |-> NaiveDue, rrule |-> Some(Weekly2)],
             [due |-> Soon, rrule |-> None],
             [due |-> None, rrule |-> Some(Weekly2)] }}

StoreInit ==
  /\ NotifierIdle
  /\ memories = NoRows
  /\ nextMem = 1
  /\ ParserIdle
  /\ NormalizerIdle
  /\ ExpanderIdle
  /\ tasks = NoRows
  /\ nextId = 1
  /\ resp = NoCall

\* What a request leaves: the table, the counter, and the response.
Leaves(r, answer) ==
  /\ tasks' = r.tasks
  /\ nextId' = r.nextId
  /\ resp' = answer
  /\ UNCHANGED <<pvars, nvars, evars, tvars, mvars>>

\* What post_task hands to add_task, given what _extract_due returned (x):
\* the cleaned title and the extracted due, or the title and due as given.
ToAdd(title, due, x) ==
  IF x.due # None THEN [title |-> x.text, due |-> x.due] ELSE [title |-> title, due |-> due]

NotExtracted == [st |-> "ok", text |-> <<>>, due |-> None]

\* POST /tasks with a body, in a zone off minutes from UTC at time now.  The
\* response keeps the due handed to add_task and the rrule of the body.
PostTask ==
  /\ nextId <= MaxId
  /\ \E task \in PostBodies, off \in StoreOffsets, now \in StoreNows :
       \E x \in {IF Truthy(task.due) THEN NotExtracted
                 ELSE ExtractDue(task.title, AddMinutes(now, off))} :
         IF x.st = "raise"
         THEN Leaves(Stored(tasks, nextId, "raise", None),
                     [op |-> "post", st |-> "raise", id |-> 0, due |-> task.due,
                      rrule |-> task.rrule])
         ELSE \E a \in {ToAdd(task.title, task.due, x)} :
                \E r \in {AddTask(tasks, nextId, a.title, a.due, None, off)} :
                  Leaves(r, [op |-> "post", st |-> r.st, id |-> nextId, due |-> a.due,
                             rrule |-> task.rrule])

\* The fields patch_task passes on: those of title, due and done that are
\* not None.
PatchFields(task) == Fields(task.title, task.due, task.done, None)

\* PATCH /tasks/{id} with a body.
PatchTask ==
  \E id \in Ids, task \in PatchBodies, off \in StoreOffsets :
    \E f \in {PatchFields(task)} :
      IF f = NoFields
      THEN Leaves(Stored(tasks, nextId, "bad_request", None),
                  [op |-> "patch", st |-> "bad_request", id |-> id, due |-> f.due,
                   rrule |-> task.rrule])
      ELSE \E r \in {UpdateTask(tasks, nextId, id, f, off)} :
             Leaves(r, [op |-> "patch", st |-> IF r.st = "none" THEN "not_found" ELSE r.st,
                        id |-> id, due |-> f.due, rrule |-> task.rrule])

\* POST /tasks/{id}/done
DoneTask ==
  \E id \in Ids, done \in BOOLEAN :
    \E r \in {MarkDone(tasks, nextId, id, done)} :
      Leaves(r, [op |-> "done", st |-> IF r.st = "none" THEN "not_found" ELSE r.st, id |-> id])

\* DELETE /tasks/{id}
DeleteTaskById ==
  \E id \in Ids :
    \E r \in {DeleteTask(tasks, nextId, id)} :
      Leaves(r, [op |-> "delete", st |-> IF r.st = "none" THEN "not_found" ELSE r.st, id |-> id])

\* The most tasks of an import file.
MaxImport == 1

RECURSIVE ImportFiles(_)
ImportFiles(n) ==
  IF n = 0 THEN { <<>> }
  ELSE ImportFiles(n - 1) \cup {Append(f, row) : f \in ImportFiles(n - 1), row \in ImportRows}

\* "for task in data.get('tasks', [])": the rows from the i-th on imported
\* in turn; statuses collects what import_task returned for each.
RECURSIVE ImportAll(_, _, _, _, _, _, _)
ImportAll(ts, nid, rows, i, overwrite, off, statuses) ==
  IF i > Len(rows) THEN [tasks |-> ts, nextId |-> nid, statuses |-> statuses]
  ELSE CHOOSE out \in
         {ImportAll(r.tasks, r.nextId, rows, i + 1, overwrite, off, Append(statuses, r.st)) :
            r \in {ImportTask(ts, nid, rows[i], overwrite, off)}} : TRUE

\* "for memory in data.get('memories', [])": the rows from the i-th on
\* imported in turn.
RECURSIVE ImportMemories(_, _, _, _, _, _)
ImportMemories(ms, nm, rows, i, overwrite, statuses) ==
  IF i > Len(rows) THEN [memories |-> ms, nextMem |-> nm, statuses |-> statuses]
  ELSE CHOOSE out \in
         {ImportMemories(r.memories, r.nextMem, rows, i + 1, overwrite, Append(statuses, r.st)) :
            r \in {ImportMemory(ms, nm, rows[i], overwrite)}} : TRUE

\* results[...][status] += 1 for the statuses that are keys of results.
Counters(statuses) ==
  [k \in {"inserted", "updated", "skipped", "failed"} |->
     Cardinality({i \in 1..Len(statuses) : statuses[i] = k})]

\* {"memories": [...], "tasks": [...]}
Data(ms, ts) == [memories |-> ms, tasks |-> ts]

\* The bodies of POST /import: files of tasks written by hand, and the body
\* of the export when that is the response last received.
ImportInputs ==
  {Data(<<>>, rows) : rows \in ImportFiles(MaxImport)}
    \cup (IF resp.op = "export" THEN {resp.data} ELSE {})

\* POST /import with a body and the overwrite flag.
ImportData ==
  \E data \in ImportInputs, overwrite \in BOOLEAN, off \in StoreOffsets :
    \E m \in {ImportMemories(memories, nextMem, data.memories, 1, overwrite, <<>>)},
       r \in {ImportAll(tasks, nextId, data.tasks, 1, overwrite, off, <<>>)} :
      /\ memories' = m.memories
      /\ nextMem' = m.nextMem
      /\ tasks' = r.tasks
      /\ nextId' = r.nextId
      /\ resp' = [op |-> "import", st |-> "ok", statuses |-> r.statuses,
                  ids |-> [i \in 1..Len(data.tasks) |-> data.tasks[i].id],
                  dues |-> [i \in 1..Len(data.tasks) |-> data.tasks[i].due],
                  data |-> data, overwrite |-> overwrite,
                  results |-> [memories |-> Counters(m.statuses),
                               tasks |-> Counters(r.statuses)]]
      /\ UNCHANGED <<pvars, nvars, evars, tvars>>

\* GET /export
ExportData ==
  /\ resp' = [op |-> "export", st |-> "ok",
              data |-> Data(GetAllMemories(memories), GetAllTasks(tasks))]
  /\ UNCHANGED <<tasks, nextId, pvars, nvars, evars, tvars, mvars>>

\* The texts and the clock readings of POST /memories.
MemoryTexts == { <<"mom", "likes", "tea">> }
MemoryNows == { DT(2024, 1, 1, 8, 0, 0, 0), DT(2024, 1, 2, 8, 0, 0, 250) }

\* POST /memories
PostMemory ==
  /\ nextMem <= MaxId
  /\ \E text \in MemoryTexts, now \in MemoryNows :
       \E m \in {AddMemory(memories, nextMem, text, now)} :
         /\ memories' = m.memories
         /\ nextMem' = m.nextMem
         /\ resp' = [op |-> "memory", st |-> "ok", row |-> m.memories[nextMem]]
  /\ UNCHANGED <<tasks, nextId, pvars, nvars, evars, tvars>>

\* DELETE /memories/{id}
DeleteMemoryById ==
  \E id \in Ids :
    \E m \in {DeleteMemory(memories, nextMem, id)} :
      /\ memories' = m.memories
      /\ nextMem' = m.nextMem
      /\ resp' = [op |-> "forget", st |-> IF m.st = "none" THEN "not_found" ELSE m.st, id |-> id]
      /\ UNCHANGED <<tasks, nextId, pvars, nvars, evars, tvars>>

\* init_db() on a database file that is not there yet: the export in hand
\* is taken to a store with empty tables.
FreshStore ==
  /\ resp.op = "export"
  /\ tasks' = NoRows
  /\ nextId' = 1
  /\ memories' = NoRows
  /\ nextMem' = 1
  /\ UNCHANGED <<resp, pvars, nvars, evars, tvars>>

\* A list_tasks that saves the first record it returns as a row of its own.
ClosedAfterInsert(ts, nid, items) ==
  IF items # <<>> /\ nid <= MaxId
  THEN Stored([ts EXCEPT ![nid] = Some([RowOf(items[1]) EXCEPT !.id = nid])], nid + 1, "ok", None)
  ELSE Stored(ts, nid, "ok", None)

\* What list_tasks leaves of the table: it runs one SELECT and closes the
\* connection; the records it builds (items) are written nowhere.
Closed(ts, nid, items) == Stored(ts, nid, "ok", None)

\* GET /tasks?open_only=&start=&end= at time now.
GetTasks ==
  \E open_only \in BOOLEAN, start \in StartInputs, end \in EndInputs, now \in StoreNows :
    \E r \in {ListTasks(tasks, open_only, Limit, start, end, now)} :
      Leaves(Closed(tasks, nextId, r.items),
             [op |-> "list", st |-> r.st, items |-> r.items, open_only |-> open_only,
              start |-> start, end |-> end, now |-> now])

Next == PostTask \/ PatchTask \/ DoneTask \/ DeleteTaskById \/ ImportData \/ GetTasks

Spec == StoreInit /\ [][Next]_vars

\* The interface with the memories, export and import: what is exported can
\* be imported into the store it came from or into an empty one.
RoundNext ==
  \/ PostTask \/ DoneTask \/ DeleteTaskById \/ PostMemory \/ DeleteMemoryById
  \/ ExportData \/ ImportData \/ FreshStore

SpecRound == StoreInit /\ [][RoundNext]_vars

-----------------------------------------------------------------------------
(* Properties of the store and the task interface.                         *)

\* The dues of the rows in the table.
StoredDues == {tasks[id][1].due : id \in {i \in Ids : tasks[i] # None}}

\* C1 as stated: every stored due is absent (NULL) or an absolute instant
\* with an explicit UTC offset; none is a naive time or any other string.
C1_DueAlwaysInstant ==
  \A due \in StoredDues : due = None \/ due[1].kind = "aware"

\* C1 as amended: every stored due is absent (NULL), an instant written
\* with the offset +00:00, or a string datetime.fromisoformat does not read
\* (which the normalizer hands back as given); none is a naive ISO time, an
\* ISO time with another offset, or the empty string.
C1_DueInstantOrUnread ==
  \A due \in StoredDues :
    \/ due = None
    \/ due[1].kind = "aware" /\ due[1].off = 0
    \/ due[1].kind \in {"bad", "loose"}

\* C1's case: a naive due written by update_task is stored as a UTC instant
\* next to a row whose due the normalizer passed through.
C1_Witness ==
  /\ resp.op = "patch" /\ resp.st = "ok"
  /\ tasks[resp.id][1].due = Some(IsoAware(DT(2024, 1, 1, 8, 0, 0, 0), 0))
  /\ \E id \in Ids : tasks[id] # None /\ tasks[id][1].due = Soon

\* C5: list_tasks returns a list and never raises, whatever the store holds
\* and whatever start and end are given.
C5_ListNeverRaises == resp.op = "list" => resp.st = "ok"

\* C9: after POST /tasks with an rrule the stored task's rrule is the rule
\* given, and after PATCH /tasks/{id} of an existing task with an rrule
\* (alone or with other fields) the request succeeds and the stored rrule is
\* the rule given.
C9_RulePersisted ==
  /\ (resp.op = "post" /\ resp.st = "ok" /\ resp.rrule # None)
       => tasks[resp.id][1].rrule = resp.rrule
  /\ (resp.op = "patch" /\ resp.rrule # None /\ tasks[resp.id] # None)
       => (resp.st = "ok" /\ tasks[resp.id][1].rrule = resp.rrule)

\* A due that is set and that datetime.fromisoformat does not read.
Unparsed(due) == due # None /\ due[1].kind \in {"bad", "loose"}

\* Whether the i-th row of the import file written last to its id.
LastWritten(i) ==
  /\ resp.statuses[i] \in {"inserted", "updated"}
  /\ \A j \in (i + 1)..Len(resp.ids) :
       resp.ids[j] = resp.ids[i] => resp.statuses[j] \notin {"inserted", "updated"}

\* C11: a due that cannot be parsed as an ISO datetime never makes the
\* normalizer raise and is handed back as given: add_task, update_task and
\* import_task given such a due complete, and the row they write holds the
\* due exactly as given.
C11_UnparsedStoredAsGiven ==
  /\ (resp.op = "post" /\ Unparsed(resp.due))
       => (resp.st = "ok" /\ tasks[resp.id][1].due = resp.due)
  /\ (resp.op = "patch" /\ resp.due # None /\ Unparsed(resp.due[1]))
       => /\ resp.st \in {"ok", "not_found"}
          /\ resp.st = "ok" => tasks[resp.id][1].due = resp.due[1]
  /\ resp.op = "import"
       => \A i \in 1..Len(resp.ids) :
            Unparsed(resp.dues[i])
              => /\ resp.statuses[i] # "failed"
                 /\ LastWritten(i) => tasks[resp.ids[i]][1].due = resp.dues[i]

\* C11's case: update_task given "soon" for a row that is there: the call
\* returned the row and the row holds "soon".
C11_Witness ==
  /\ resp.op = "patch" /\ resp.st = "ok"
  /\ resp.due = Some(Soon)
  /\ tasks[resp.id][1].due = Soon

\* Other times a list query can be made at: the day the first occurrences
\* have passed, and half a year on.
OtherNows == { DT(2024, 1, 5, 0, 0, 0, 0), DT(2024, 7, 1, 12, 0, 0, 0) }

\* The query of the last response made again at time now.
ListedAgain(now) ==
  ListTasks(tasks, resp.open_only, Limit, resp.start, resp.end, now)

\* "<parent id>_r_<YYYYMMDD_HHMMSS>" of a record: the parent's id and the
\* record's own due read to the second.
OccurrenceId(x) == [n |-> x.parent_task_id[1], stamp |-> Some([x.due[1].dt EXCEPT !.us = 0])]

\* C12: in a list_tasks response every record made by expansion is marked
\* is_recurring_instance, names as parent_task_id the id of a stored task and
\* has the id "<parent id>_r_<its own due as YYYYMMDD_HHMMSS>", and no other
\* record has an id of this form; the ids of one response are pairwise
\* distinct; the same query made at another time gives an occurrence with
\* the same parent and due the same id, and the same records altogether
\* when the query names its start.
C12_OccurrenceIds ==
  (resp.op = "list" /\ resp.st = "ok") =>
    /\ \A i \in 1..Len(resp.items) :
         IF resp.items[i].is_recurring_instance
         THEN /\ resp.items[i].parent_task_id # None
              /\ tasks[resp.items[i].parent_task_id[1]] # None
              /\ resp.items[i].due # None
              /\ resp.items[i].id = OccurrenceId(resp.items[i])
         ELSE /\ resp.items[i].id.stamp = None
              /\ resp.items[i].parent_task_id = None
    /\ \A i, j \in 1..Len(resp.items) : i # j => resp.items[i].id # resp.items[j].id
    /\ \A now \in OtherNows :
         \E again \in {ListedAgain(now)} :
           /\ again.st = "ok"
           /\ \A i \in 1..Len(resp.items), j \in 1..Len(again.items) :
                (/\ resp.items[i].is_recurring_instance
                 /\ again.items[j].is_recurring_instance
                 /\ resp.items[i].parent_task_id = again.items[j].parent_task_id
                 /\ resp.items[i].due = again.items[j].due)
                  => resp.items[i].id = again.items[j].id
           /\ QueryDate(resp.start) # None => again.items = resp.items

\* C12's case: the occurrences of two recurring tasks in one response, of
\* which a query made later would leave some out.
C12_Witness ==
  /\ resp.op = "list" /\ resp.st = "ok"
  /\ \E i, j \in 1..Len(resp.items) :
       /\ resp.items[i].is_recurring_instance
       /\ resp.items[j].is_recurring_instance
       /\ resp.items[i].parent_task_id # resp.items[j].parent_task_id
  /\ \E now \in OtherNows : Len(ListedAgain(now).items) < Len(resp.items)

\* C13: a list query (any open_only, start and end) leaves the table and
\* the id counter exactly as they were, so no occurrence record becomes a
\* row; and the stored record is not modified by expansion: a record
\* returned that is no occurrence is the stored row as it is, and an
\* occurrence is a copy of its stored parent that differs from it in id,
\* due, is_recurring_instance and parent_task_id only.
C13_ListReadOnly ==
  [][resp'.op = "list" =>
       /\ tasks' = tasks
       /\ nextId' = nextId
       /\ resp'.st = "ok" =>
            \A i \in 1..Len(resp'.items) :
              /\ tasks[resp'.items[i].id.n] # None
              /\ IF resp'.items[i].id.stamp = None
                 THEN resp'.items[i] = AsItem(tasks[resp'.items[i].id.n][1])
                 ELSE /\ resp'.items[i].title = tasks[resp'.items[i].id.n][1].title
                      /\ resp'.items[i].done = tasks[resp'.items[i].id.n][1].done
                      /\ resp'.items[i].notified_at = tasks[resp'.items[i].id.n][1].notified_at
                      /\ resp'.items[i].rrule = tasks[resp'.items[i].id.n][1].rrule]_vars

\* C13's case: a list query has returned occurrences of a stored recurring
\* task next to a task that does not recur, and the table holds just the two.
C13_Witness ==
  /\ resp.op = "list" /\ resp.st = "ok"
  /\ \E i, j \in 1..Len(resp.items) :
       resp.items[i].is_recurring_instance /\ ~resp.items[j].is_recurring_instance
  /\ \A id \in Ids : tasks[id] # None
  /\ Len(resp.items) > MaxId

\* The instant of a due that dateutil reads.
InstantOf(due) == AsUTC(ParseDate(due[1]).val)

\* Whether a record may stand before another in a list ordered by due
\* chronologically, records without due last, ties by descending parent id.
InDueOrder(x, y) ==
  IF ~Truthy(x.due) THEN ~Truthy(y.due) /\ x.id.n >= y.id.n
  ELSE IF ~Truthy(y.due) \/ Unreadable(x.due) \/ Unreadable(y.due) THEN TRUE
  ELSE \/ Before(InstantOf(x.due), InstantOf(y.due))
       \/ ~Before(InstantOf(y.due), InstantOf(x.due)) /\ x.id.n >= y.id.n

\* C14: the list returned is ordered: with open_only by due ascending in
\* chronological order, the records lacking a due last, ties by descending
\* parent id; without open_only by descending parent id (the parent id of
\* an occurrence is the number its id begins with).
C14_Ordered ==
  (resp.op = "list" /\ resp.st = "ok") =>
    \A i, j \in 1..Len(resp.items) :
      i < j => IF resp.open_only
               THEN InDueOrder(resp.items[i], resp.items[j])
               ELSE resp.items[i].id.n >= resp.items[j].id.n

-----------------------------------------------------------------------------
(* The notifier (main.py) beside the writers of the store (storage.py):    *)
(* the thread of _notifier_loop takes one step at a time, and calls of     *)
(* add_task, update_task, mark_done and delete_task come in between.       *)

\* "due <= ?" in SQLite: the strings are compared.
DueNotAfter(due, now_iso) ==
  DueKey(due) = DueKey(Some(now_iso)) \/ KeyLess(DueKey(due), DueKey(Some(now_iso)))

\* due_unnotified(now_iso): the rows selected, by id.
DueUnnotified(ts, now_iso) ==
  LET Wanted(id) ==
        /\ ts[id] # None
        /\ ~ts[id][1].done
        /\ ts[id][1].due # None
        /\ DueNotAfter(ts[id][1].due, now_iso)
        /\ ts[id][1].notified_at = None
  IN [p \in 1..Cardinality({id \in Ids : Wanted(id)}) |->
        ts[CHOOSE id \in Ids :
             Wanted(id) /\ Cardinality({k \in Ids : Wanted(k) /\ k < id}) = p - 1][1]]

\* set_notified(task_id, when_iso): no row, nothing written.
SetNotified(ts, id, when_iso) ==
  IF ts[id] = None THEN ts
  ELSE [ts EXCEPT ![id] = Some([ts[id][1] EXCEPT !.notified_at = Some(when_iso)])]

\* The most notifications counted for one task.
MaxSent == 2

\* The readings of datetime.utcnow() as time goes by: before the dues, at
\* 09:00:00 to the microsecond, half a millisecond later, and after them.
NotifyClock ==
  << DT(2024, 1, 1, 8, 0, 0, 0), DT(2024, 1, 1, 9, 0, 0, 0),
     DT(2024, 1, 1, 9, 0, 0, 500), DT(2024, 1, 1, 10, 30, 0, 0) >>

\* The dues given to add_task and update_task: none, 09:00Z, 11:00 local
\* time, "soon".
NotifyDues ==
  {None, Some(IsoAware(DT(2024, 1, 1, 9, 0, 0, 0), 0)),
   Some(IsoNaive(DT(2024, 1, 1, 11, 0, 0, 0))), Soon}

Sleeping == [pc |-> "sleep", at |-> ZeroDT, due |-> <<>>]

NotifyInit ==
  /\ ParserIdle
  /\ NormalizerIdle
  /\ ExpanderIdle
  /\ tasks = NoRows
  /\ nextId = 1
  /\ resp = NoCall
  /\ clock = 1
  /\ notifier = Sleeping
  /\ sent = [id \in Ids |-> 0]
  /\ memories = NoRows
  /\ nextMem = 1

\* What a call of a storage function leaves while the notifier stands still.
Writes(r) ==
  /\ tasks' = r.tasks
  /\ nextId' = r.nextId
  /\ UNCHANGED <<resp, clock, notifier, sent>>
  /\ UNCHANGED <<pvars, nvars, evars, mvars>>

\* add_task(title, due)
CallAddTask ==
  /\ nextId <= MaxId
  /\ \E due \in NotifyDues, off \in StoreOffsets :
       Writes(AddTask(tasks, nextId, <<"call">>, due, None, off))

\* update_task(task_id, due=...)
CallUpdateTask ==
  \E id \in Ids, due \in NotifyDues, off \in StoreOffsets :
    Writes(UpdateTask(tasks, nextId, id, Fields(None, Some(due), None, None), off))

\* mark_done(task_id, done)
CallMarkDone ==
  \E id \in Ids, done \in BOOLEAN : Writes(MarkDone(tasks, nextId, id, done))

\* delete_task(task_id)
CallDeleteTask ==
  \E id \in Ids : Writes(DeleteTask(tasks, nextId, id))

\* Time passes.
Tick ==
  /\ clock < Len(NotifyClock)
  /\ clock' = clock + 1
  /\ UNCHANGED <<notifier, sent, svars, pvars, nvars, evars, mvars>>

\* now_iso = datetime.utcnow().isoformat(); due = storage.due_unnotified(now_iso)
Scan ==
  /\ notifier.pc = "sleep"
  /\ notifier' = [pc |-> "for", at |-> NotifyClock[clock],
                  due |-> DueUnnotified(tasks, IsoNaive(NotifyClock[clock]))]
  /\ UNCHANGED <<clock, sent, svars, pvars, nvars, evars, mvars>>

\* for t in due: _notify_ntfy("Reminder", t["title"])
Notify ==
  /\ notifier.pc = "for"
  /\ notifier.due # <<>>
  /\ sent' = [sent EXCEPT ![Head(notifier.due).id] = IF @ < MaxSent THEN @ + 1 ELSE @]
  /\ notifier' = [notifier EXCEPT !.pc = "sent"]
  /\ UNCHANGED <<clock, svars, pvars, nvars, evars, mvars>>

\* storage.set_notified(t["id"], now_iso), and on to the next t
MarkNotified ==
  /\ notifier.pc = "sent"
  /\ tasks' = SetNotified(tasks, Head(notifier.due).id, IsoNaive(notifier.at))
  /\ notifier' = [notifier EXCEPT !.pc = "for", !.due = Tail(@)]
  /\ UNCHANGED <<nextId, resp, clock, sent, pvars, nvars, evars, mvars>>

\* The list is through: time.sleep(30)
Sleep ==
  /\ notifier.pc = "for"
  /\ notifier.due = <<>>
  /\ notifier' = Sleeping
  /\ UNCHANGED <<clock, sent, svars, pvars, nvars, evars, mvars>>

NotifyNext ==
  \/ CallAddTask \/ CallUpdateTask \/ CallMarkDone \/ CallDeleteTask
  \/ Tick \/ Scan \/ Notify \/ MarkNotified \/ Sleep

SpecNotify == NotifyInit /\ [][NotifyNext]_vars

\* The task the notifier has sent for and not yet marked (0: none).
BeingMarked == IF notifier.pc = "sent" THEN Head(notifier.due).id ELSE 0

\* C20: however the notifier's steps and add_task, update_task, mark_done
\* and delete_task interleave, no task is notified twice; every task on the
\* notifier's list was undone, due by the scan's now and not yet notified
\* when it was scanned; a notified task, if still stored, has notified_at
\* set as soon as the notifier's next step is done; and no step puts a
\* notified_at that is set back to NULL.
C20_AtMostOnce ==
  /\ [](/\ \A id \in Ids : sent[id] <= 1
        /\ \A i \in 1..Len(notifier.due) :
             /\ ~notifier.due[i].done
             /\ notifier.due[i].notified_at = None
             /\ notifier.due[i].due # None
             /\ DueNotAfter(notifier.due[i].due, IsoNaive(notifier.at))
        /\ \A id \in Ids :
             (sent[id] > 0 /\ tasks[id] # None /\ BeingMarked # id)
               => tasks[id][1].notified_at # None)
  /\ [][\A id \in Ids :
         (tasks[id] # None /\ tasks[id][1].notified_at # None /\ tasks'[id] # None)
           => tasks'[id][1].notified_at # None]_vars

\* C20's case: a task was notified, then its due was moved by update_task
\* and it was set undone by mark_done, and the notifier has scanned again at
\* a time after the new due.
C20_Witness ==
  \E id \in Ids :
    /\ sent[id] = 1
    /\ tasks[id] # None
    /\ ~tasks[id][1].done
    /\ tasks[id][1].due = Some(IsoAware(DT(2024, 1, 1, 10, 0, 0, 0), 0))
    /\ tasks[id][1].notified_at = Some(IsoNaive(NotifyClock[3]))
    /\ notifier.pc = "for"
    /\ notifier.at = NotifyClock[4]

\* The notifier loop keeps running (while True, every exception caught,
\* time.sleep(30) returns) and time goes by.
NotifierRuns ==
  /\ WF_vars(Scan)
  /\ WF_vars(Notify)
  /\ WF_vars(MarkNotified)
  /\ WF_vars(Sleep)
  /\ WF_vars(Tick)

SpecNotifyLive == NotifyInit /\ [][NotifyNext]_vars /\ NotifierRuns

\* A stored task that is undone and whose due is an instant that has passed.
Overdue(id) ==
  /\ tasks[id] # None
  /\ ~tasks[id][1].done
  /\ Truthy(tasks[id][1].due)
  /\ ~Unreadable(tasks[id][1].due)
  /\ ~Before(Aware(NotifyClock[clock], 0), InstantOf(tasks[id][1].due))

\* A notification was sent for the task at or after the due it has now:
\* notified_at holds the scan's now of the last notification.
NotifiedForDue(id) ==
  /\ sent[id] > 0
  /\ tasks[id][1].notified_at # None
  /\ ~Before(InstantOf(tasks[id][1].notified_at), InstantOf(tasks[id][1].due))

\* C21: with the notifier loop running, a task that is undone and whose due
\* (as add_task set it or update_task last changed it, after an earlier
\* notification too) has passed is notified at or after that due, unless it
\* stops being such a task.
C21_EventuallyNotified ==
  \A id \in Ids : Overdue(id) ~> (~Overdue(id) \/ NotifiedForDue(id))

-----------------------------------------------------------------------------
(* Export and import.                                                      *)

\* The store holds what the export in hand holds.
SameStore ==
  /\ GetAllMemories(memories) = resp.data.memories
  /\ GetAllTasks(tasks) = resp.data.tasks

EmptyStore == tasks = NoRows /\ memories = NoRows

\* The sum of the four counters of a collection.
Counted(c) == c["inserted"] + c["updated"] + c["skipped"] + c["failed"]

\* Every item of a collection was counted under the status k.
AllCounted(c, k, items) == c[k] = Len(items) /\ Counted(c) = Len(items)

\* C22: the four counters of each collection of an import sum to the number
\* of items submitted; and when the body of the last export is imported,
\* into the store it was taken from every memory and task stays as it was,
\* each item counted as skipped without overwrite and as updated with it, and
\* into an empty store the memories and tasks of the export are there again
\* under their ids, each item counted as inserted.
C22_RoundTrip ==
  /\ [](resp.op = "import" =>
          /\ Counted(resp.results.memories) = Len(resp.data.memories)
          /\ Counted(resp.results.tasks) = Len(resp.data.tasks))
  /\ [][(resp.op = "export" /\ resp'.op = "import" /\ resp'.data = resp.data) =>
          /\ SameStore =>
               /\ memories' = memories
               /\ tasks' = tasks
               /\ AllCounted(resp'.results.memories,
                             IF resp'.overwrite THEN "updated" ELSE "skipped",
                             resp.data.memories)
               /\ AllCounted(resp'.results.tasks,
                             IF resp'.overwrite THEN "updated" ELSE "skipped",
                             resp.data.tasks)
          /\ EmptyStore =>
               /\ GetAllMemories(memories') = resp.data.memories
               /\ GetAllTasks(tasks') = resp.data.tasks
               /\ AllCounted(resp'.results.memories, "inserted", resp.data.memories)
               /\ AllCounted(resp'.results.tasks, "inserted", resp.data.tasks)]_vars

\* C22's case: an export of two memories and two tasks, one of them done and
\* one with a due in UTC, was imported with overwrite into the store that
\* holds them, and each item was counted as updated.
C22_Witness ==
  /\ resp.op = "import"
  /\ resp.overwrite
  /\ Len(resp.data.memories) = 2
  /\ Len(resp.data.tasks) = 2
  /\ \E i, j \in 1..2 :
       /\ resp.data.tasks[i].done
       /\ resp.data.tasks[j].due # None /\ resp.data.tasks[j].due[1].kind = "aware"
  /\ resp.results.memories["updated"] = 2
  /\ resp.results.tasks["updated"] = 2
  /\ SameStore

=============================================================================
